---- MODULE Spec2Model ----
(***************************************************************************)
(* A model of the network visualization library: the data normalizer of    *)
(* NetworkVisualizationV2Component (validateAndSanitizeData,               *)
(* setupSimulation), NetworkDataService.validateNetworkData, the view      *)
(* transform driven through d3-zoom, and the force simulation, its scene   *)
(* and the node drag handlers.                                             *)
(*                                                                         *)
(* The specifications of the module:                                       *)
(*   SpecNorm   the normalizer applied to every raw graph of a bounded set *)
(*   SpecRenorm the normalizer applied to its own result                   *)
(*   SpecView   the view transform under zoom gestures and the API         *)
(*   SpecScene  the solver, the scene and the drag handlers                *)
(*   SpecHover  the pointer over the node entries of the scene             *)
(*   SpecSanitize  sanitizeData of the two NetworkDataService versions     *)
(*   SpecReposition  the scene with forceRepositionNodes of the third class *)
(*   SpecDeferred  the delayed fit-to-view and the teardown                *)
(*   SpecService   the renderer service and the state-service component    *)
(*   SpecError     NetworkErrorService and its auto-clear timeouts         *)
(*   SpecCache     NetworkCacheService.set and its eviction                *)
(*   SpecPlugin    the concurrent calls of installPlugin                   *)
(***************************************************************************)
EXTENDS Integers, Sequences, FiniteSets, TLC

VARIABLES
  \* ---- SpecNorm: the normalizer as a pipeline over one raw graph
  nIn,        \* the raw graph handed to the component (this.data)
  nStage,     \* "input" | "validated" | "simulated"
  nCheck,     \* result of NetworkDataService.validateNetworkData(nIn)
  nOut,       \* result of validateAndSanitizeData(nIn)
  nSim,       \* what setupSimulation hands to d3.forceSimulation / forceLink
  \* ---- SpecSanitize: NetworkDataService.sanitizeData on one node and one link
  zImpl,      \* the version of NetworkDataService: "part_004" | "part_005"
  zIn,        \* the raw data: [node, link]
  zOut,       \* the result of sanitizeData(zIn)
  zStage,     \* "input" | "sanitized"
  \* ---- SpecView: the view transform
  vImpl,      \* the class that owns the zoom behaviour: "v1" | "v4" | "svc"
  vCfg,       \* config.zoomConfig
  vSize,      \* [w, h]: the component's width and height inputs
  vLayout,    \* the positions of the nodes fit-to-view reads
  vT,         \* the zoom transform [k, x, y] of the svg element
  vExtent,    \* [min, max]: the scaleExtent given to d3.zoom()
  vInitial,   \* initialZoomApplied / the initial zoom has run
  vOps,       \* the operations applied to the view so far
  vLast,      \* the last operation applied to the view and the transform before it

  \* ---- SpecScene: the component, its solver and its scene
  sDragImpl,  \* the class whose drag and teardown code runs: "v1" | "v4"
  sData,      \* this.data: [graph, placed]; placed = its nodes are the solver's
  sSvg,       \* setupSVG has run (this.svg, this.g and the layer groups exist)
  sSim,       \* this.simulation and its timer (see NoSim)
  sNodes,     \* this.simulationNodes: the node objects the solver mutates
  sLinks,     \* this.simulationLinks
  sScene,     \* the node entries of .nodes-group, in document order
  sLines,     \* the link entries of .links-group, in document order
  sForces,    \* forcesEnabledSignal
  sError,     \* errorSignal is set
  sCounts,    \* nodeCountSignal, linkCountSignal
  sDrag,      \* the drag gesture in progress (see NoDrag)
  sPhase,     \* "new" | "live" (ngOnInit has run) | "destroyed" (ngOnDestroy has run)
  sLast,      \* the last handler that ran, with what the claims need of it
  sBudget,    \* the handlers the host and the user have started since ngOnInit
  \* ---- SpecHover: the pointer over the node entries
  hPointer,   \* the key of the node entry under the pointer, or NoNode
  hHovered,   \* hoveredNodeSignal: the id of the node recorded as hovered
  hLast,      \* the last pointer move and the nodeHover events it emitted
  \* ---- SpecDeferred: the delayed fit-to-view of the first class
  tPending,   \* the timeouts of applyInitialZoom that have not fired yet
  tDestroyed, \* ngOnDestroy has run
  \* ---- SpecService: NetworkRendererService and the component built on
  \* ---- NetworkStateService
  rImpl,      \* "service" (NetworkRendererService) or "state" (the component)
  rNodes,     \* the node objects bound to the scene and given to the solver
  rLinks,     \* the link objects bound to the line elements
  rScene,     \* the .node elements: key, render pass of creation, position
  rLines,     \* the .link elements: render pass of creation, endpoints
  rPass,      \* number of render passes so far
  rSim,       \* a simulation has been created (and is ticking)
  rSubs,      \* the tick listeners: subscriptions to simulationEvents, or
              \* the 'tick' listener of the component's simulation
  rUpdates,   \* the position updates the last tick has triggered
  rLast,      \* the last operation
  \* ---- SpecError: NetworkErrorService
  eMade,      \* the NetworkError objects created so far, by identity
  eCurrent,   \* errors$.value: the identity of the current error, or NoError
  eTimers,    \* the pending auto-clear timeouts, oldest first: the error of each
  eLog,       \* errorLog, newest first: [error, resolved]
  eLast,      \* the last operation, its error and the current error before it
  \* ---- SpecCache: NetworkCacheService
  kCache,     \* the Map, in insertion order: [key, lastAccessed, size]
  kNow,       \* Date.now()
  kMaxSize,   \* config.maxSize
  kHung,      \* a call has entered a loop that does not end
  kLast,      \* the last operation and its key
  \* ---- SpecPlugin: NetworkPluginService.installPlugin
  pPlugins,   \* the keys of this.plugins
  pCalls,     \* the installPlugin calls: [id, pc, success, rejected]
  pRuns       \* how often plugin.install has been called, by plugin id

sanVars == <<zImpl, zIn, zOut, zStage>>
deferVars == <<tPending, tDestroyed>>
serviceVars == <<rImpl, rNodes, rLinks, rScene, rLines, rPass, rSim, rSubs,
                 rUpdates, rLast>>
errorVars == <<eMade, eCurrent, eTimers, eLog, eLast>>
cacheVars == <<kCache, kNow, kMaxSize, kHung, kLast>>
pluginVars == <<pPlugins, pCalls, pRuns>>
utilVars == <<errorVars, cacheVars, pluginVars>>
pipelineVars == <<nIn, nStage, nCheck, nOut, nSim, zImpl, zIn, zOut, zStage,
                  utilVars>>
normVars == <<pipelineVars, deferVars, serviceVars>>
hoverVars == <<hPointer, hHovered, hLast>>
sceneVars == <<sDragImpl, sData, sSvg, sSim, sNodes, sLinks, sScene, sLines,
               sForces, sError, sCounts, sDrag, sPhase, sLast, sBudget,
               hPointer, hHovered, hLast, deferVars, serviceVars, utilVars>>
viewVars == <<vImpl, vCfg, vSize, vLayout, vT, vExtent, vInitial, vOps, vLast>>

-----------------------------------------------------------------------------
(* Bounds of the model *)

MaxNodes == 2
MaxLinks == 1
\* the operations applied to the view in one run
MaxViewOps == 3
\* the handlers the host and the user start in one run, after ngOnInit: data
\* and config changes, resizes, uses of the forces control, drag gestures
MaxOps == 2

-----------------------------------------------------------------------------
(* JavaScript values that occur as identifiers *)

Num(k) == [t |-> "number", n |-> k, s |-> ""]
Str(x) == [t |-> "string", n |-> 0, s |-> x]
Null   == [t |-> "null", n |-> 0, s |-> ""]
Undef  == [t |-> "undefined", n |-> 0, s |-> ""]

\* a link endpoint: a primitive (obj = FALSE) or a node object with id v
Prim(v)    == [obj |-> FALSE, v |-> v]
NodeObj(v) == [obj |-> TRUE, v |-> v]

Digit == <<"0", "1", "2", "3", "4", "5", "6", "7", "8", "9">>

RECURSIVE NumToString(_)
NumToString(k) ==
  IF k < 10 THEN Digit[k + 1]
  ELSE NumToString(k \div 10) \o Digit[(k % 10) + 1]

\* Number.prototype.toString / String.prototype.toString
toString(v) == IF v.t = "number" THEN NumToString(v.n) ELSE v.s

\* a.toString() throws a TypeError on null and undefined
ToStringThrows(v) == v.t \in {"null", "undefined"}

\* JavaScript strict equality on identifiers (a === b, Set.has, Map.has)
StrictEq(a, b) ==
  /\ a.t = b.t
  /\ (a.t = "number" => a.n = b.n)
  /\ (a.t = "string" => a.s = b.s)

-----------------------------------------------------------------------------
(* Sequence helpers *)

Range(q) == {q[i] : i \in 1..Len(q)}

RECURSIVE SelectIdx(_, _, _)
\* the subsequence of q at the indices in keep, in order, from index i on
SelectIdx(q, keep, i) ==
  IF i > Len(q) THEN <<>>
  ELSE (IF i \in keep THEN <<q[i]>> ELSE <<>>) \o SelectIdx(q, keep, i + 1)

SeqsUpTo(S, k) == UNION {[1..m -> S] : m \in 0..k}

-----------------------------------------------------------------------------
(* validateAndSanitizeData *)

\* node.id !== null && node.id !== undefined && node.id !== ''
HasValidId(node) ==
  /\ node.id.t # "null"
  /\ node.id.t # "undefined"
  /\ ~(node.id.t = "string" /\ node.id.s = "")

\* (typeof e === 'object' ? e.id : e).toString() throws: typeof null is
\* 'object', so a null endpoint reads null.id; undefined has no toString
EndpointThrows(e) ==
  IF e.obj THEN ToStringThrows(e.v)
  ELSE IF e.v.t = "null" THEN TRUE
  ELSE ToStringThrows(e.v)

EndpointId(e) == toString(e.v)

\* the filter callback of data.links.filter: the link's warnings and whether
\* it is kept, given the key set of nodeIdMap
LinkWarnings(link, keys) ==
  (IF EndpointId(link.source) \in keys THEN <<>> ELSE <<"invalid-source">>)
  \o (IF EndpointId(link.target) \in keys THEN <<>> ELSE <<"invalid-target">>)

\* a filter that forgets the target: return hasValidSource
LinkKeptSourceOnly(link, keys) == EndpointId(link.source) \in keys

LinkKept(link, keys) ==
  EndpointId(link.source) \in keys /\ EndpointId(link.target) \in keys

LinkThrows(link) == EndpointThrows(link.source) \/ EndpointThrows(link.target)

NormalizedLink(link) ==
  [source |-> EndpointId(link.source), target |-> EndpointId(link.target)]

RECURSIVE FilterLinks(_, _, _)
\* data.links.filter(...).map(...): stops at the first link whose endpoint
\* cannot be read
FilterLinks(links, keys, i) ==
  IF i > Len(links) THEN [threw |-> FALSE, links |-> <<>>, warnings |-> <<>>]
  ELSE IF LinkThrows(links[i])
       THEN [threw |-> TRUE, links |-> <<>>, warnings |-> <<>>]
  ELSE LET rest == FilterLinks(links, keys, i + 1)
           kept == IF LinkKept(links[i], keys)
                     THEN <<NormalizedLink(links[i])>> ELSE <<>>
       IN  [threw    |-> rest.threw,
            links    |-> kept \o rest.links,
            warnings |-> LinkWarnings(links[i], keys) \o rest.warnings]

Thrown == [threw |-> TRUE, nodes |-> <<>>, links |-> <<>>, warnings |-> <<>>]

\* node.id = node.id.toString() on every valid node, in place
NormalizeNode(node) == [node EXCEPT !.id = Str(toString(node.id))]

validNodes(data) ==
  LET kept == SelectIdx(data.nodes,
                       {i \in 1..Len(data.nodes) : HasValidId(data.nodes[i])}, 1)
  IN  [i \in 1..Len(kept) |-> NormalizeNode(kept[i])]

validateAndSanitizeData(data) ==
  IF ~data.hasNodes THEN Thrown            \* data.nodes.filter on undefined
  ELSE
    LET nodes == validNodes(data)
        keys  == {nodes[i].id.s : i \in 1..Len(nodes)}
        w1    == IF Len(nodes) # Len(data.nodes)
                   THEN <<"removed-nodes">> ELSE <<>>
    IN  IF ~data.hasLinks THEN Thrown       \* data.links.filter on undefined
        ELSE
          LET f  == FilterLinks(data.links, keys, 1)
              w2 == IF Len(f.links) # Len(data.links)
                      THEN <<"removed-links">> ELSE <<>>
          IN  IF f.threw THEN Thrown
              ELSE [threw    |-> FALSE,
                    nodes    |-> nodes,
                    links    |-> f.links,
                    warnings |-> w1 \o f.warnings \o w2]

\* the in-place effect of validateAndSanitizeData on its argument: every
\* node that passes the identifier filter has its id rewritten to a string
MutatedInput(data) ==
  IF ~data.hasNodes THEN data
  ELSE [data EXCEPT !.nodes =
          [i \in 1..Len(data.nodes) |->
             IF HasValidId(data.nodes[i]) THEN NormalizeNode(data.nodes[i])
             ELSE data.nodes[i]]]

-----------------------------------------------------------------------------
(* setupSimulation: the link preparation in front of d3.forceLink *)

SimLinkValid(link, nodeIds) ==
  link.source \in nodeIds /\ link.target \in nodeIds

\* clean is a result of validateAndSanitizeData: string endpoints
PrepareSimulation(clean) ==
  LET nodeIds == {clean.nodes[i].id.s : i \in 1..Len(clean.nodes)}
  IN  [created |-> TRUE,
       nodes   |-> clean.nodes,
       links   |-> SelectIdx(clean.links,
                     {i \in 1..Len(clean.links) :
                        SimLinkValid(clean.links[i], nodeIds)}, 1)]

NoSimulation == [created |-> FALSE, nodes |-> <<>>, links |-> <<>>]

\* if (!data.nodes || data.nodes.length === 0) return;
setupSimulationData(clean) ==
  IF Len(clean.nodes) = 0 THEN NoSimulation ELSE PrepareSimulation(clean)

-----------------------------------------------------------------------------
(* NetworkDataService.validateNetworkData *)

\* typeof node.id === 'string' || typeof node.id === 'number'
isValidNode(node) == node.id.t \in {"string", "number"}

isValidLink(link) ==
  /\ ~(~link.source.obj /\ link.source.v.t \in {"null", "undefined"})
  /\ ~(~link.target.obj /\ link.target.v.t \in {"null", "undefined"})

getLinkNodeId(e) == e.v

RECURSIVE NodeErrors(_, _, _)
\* the forEach over data.nodes: seen is the Set nodeIds built so far
NodeErrors(nodes, seen, i) ==
  IF i > Len(nodes) THEN [errors |-> <<>>, ids |-> seen]
  ELSE IF ~isValidNode(nodes[i])
       THEN LET r == NodeErrors(nodes, seen, i + 1)
            IN  [r EXCEPT !.errors = <<"invalid-node">> \o r.errors]
  ELSE IF \E v \in seen : StrictEq(v, nodes[i].id)
       THEN LET r == NodeErrors(nodes, seen, i + 1)
            IN  [r EXCEPT !.errors = <<"duplicate-id">> \o r.errors]
  ELSE NodeErrors(nodes, seen \cup {nodes[i].id}, i + 1)

LinkErrors(link, ids) ==
  IF ~isValidLink(link) THEN <<"invalid-link">>
  ELSE (IF \E v \in ids : StrictEq(v, getLinkNodeId(link.source))
          THEN <<>> ELSE <<"missing-source">>)
       \o (IF \E v \in ids : StrictEq(v, getLinkNodeId(link.target))
             THEN <<>> ELSE <<"missing-target">>)

RECURSIVE AllLinkErrors(_, _, _)
AllLinkErrors(links, ids, i) ==
  IF i > Len(links) THEN <<>>
  ELSE LinkErrors(links[i], ids) \o AllLinkErrors(links, ids, i + 1)

validateNetworkData(data) ==
  LET structural ==
        (IF data.hasNodes THEN <<>> ELSE <<"nodes-not-array">>)
        \o (IF data.hasLinks THEN <<>> ELSE <<"links-not-array">>)
  IN  IF Len(structural) > 0
        THEN [isValid |-> FALSE, errors |-> structural]
      ELSE
        LET n == NodeErrors(data.nodes, {}, 1)
            e == n.errors \o AllLinkErrors(data.links, n.ids, 1)
        IN  [isValid |-> Len(e) = 0, errors |-> e]

-----------------------------------------------------------------------------
(* SpecNorm: the pipeline applied to every raw graph within the bounds *)

NodeIdValues == {Num(1), Num(2), Str("1"), Str(""), Null}

EndpointValues ==
  {Prim(Num(1)), Prim(Num(99)), Prim(Str("1")), Prim(Null), Prim(Undef),
   NodeObj(Num(2))}

RawNodes == {[id |-> v] : v \in NodeIdValues}
RawLinks == {[source |-> a, target |-> b] : a, b \in EndpointValues}

RawGraphs ==
  {[hasNodes |-> TRUE, hasLinks |-> TRUE, nodes |-> ns, links |-> ls] :
      ns \in SeqsUpTo(RawNodes, MaxNodes), ls \in SeqsUpTo(RawLinks, MaxLinks)}
  \cup {[hasNodes |-> FALSE, hasLinks |-> TRUE, nodes |-> <<>>, links |-> ls] :
          ls \in SeqsUpTo(RawLinks, MaxLinks)}
  \cup {[hasNodes |-> TRUE, hasLinks |-> FALSE, nodes |-> ns, links |-> <<>>] :
          ns \in SeqsUpTo(RawNodes, MaxNodes)}

NoCheck == [isValid |-> FALSE, errors |-> <<>>]

InitNorm ==
  /\ nIn \in RawGraphs
  /\ nStage = "input"
  /\ nCheck = NoCheck
  /\ nOut = Thrown
  /\ nSim = NoSimulation

\* this.dataService.validateNetworkData(this.data)
CheckData ==
  /\ nStage = "input"
  /\ nCheck' = validateNetworkData(nIn)
  /\ nStage' = "checked"
  /\ UNCHANGED <<nIn, nOut, nSim, sanVars, viewVars, sceneVars>>

\* const cleanData = this.validateAndSanitizeData(this.data)
Normalize ==
  /\ nStage = "checked"
  /\ nOut' = validateAndSanitizeData(nIn)
  /\ nIn' = MutatedInput(nIn)
  /\ nStage' = "validated"
  /\ UNCHANGED <<nCheck, nSim, sanVars, viewVars, sceneVars>>

\* this.setupSimulation(cleanData), reached only when normalization returned
Simulate ==
  /\ nStage = "validated"
  /\ ~nOut.threw
  /\ nSim' = setupSimulationData(nOut)
  /\ nStage' = "simulated"
  /\ UNCHANGED <<nIn, nCheck, nOut, sanVars, viewVars, sceneVars>>

NextNorm == CheckData \/ Normalize \/ Simulate

\* the graph validateAndSanitizeData returned, as the data of a next call:
\* its links are new objects with string endpoints
AsData(clean) ==
  [hasNodes |-> TRUE, hasLinks |-> TRUE,
   nodes |-> clean.nodes,
   links |-> [i \in 1..Len(clean.links) |->
                [source |-> Prim(Str(clean.links[i].source)),
                 target |-> Prim(Str(clean.links[i].target))]]]

\* validateAndSanitizeData applied to its own result
Renormalize ==
  /\ nStage = "validated"
  /\ ~nOut.threw
  /\ nOut' = validateAndSanitizeData(AsData(nOut))
  /\ nIn' = MutatedInput(AsData(nOut))
  /\ nStage' = "renormalized"
  /\ UNCHANGED <<nCheck, nSim, sanVars, viewVars, sceneVars>>

NextRenorm == CheckData \/ Normalize \/ Renormalize

-----------------------------------------------------------------------------
(* SpecSanitize: sanitizeData of the two versions of NetworkDataService,    *)
(* applied to one node and one link with style fields                       *)

\* a property the object does not have
Absent == [t |-> "absent", n |-> 0, s |-> ""]

\* Math.max(a, b)
MathMax(a, b) == IF a > b THEN a ELSE b

\* Math.max(lo, Math.min(hi, x))
Clamp(lo, hi, x) == MathMax(lo, IF hi < x THEN hi ELSE x)

\* the colors of the inputs, and what the tests of isValidColor (part_004)
\* give on them: the hex pattern, the prefixes rgb( and rgba(, the names
SampleColors == {"#ff6b6b", "red", "rgb(oops", "notacolor"}
MatchesHex == {"#ff6b6b"}
MatchesRgbPrefix == {"rgb(oops"}
NamedColors == {"red"}

isValidColor(color) ==
  color.s \in MatchesHex \cup MatchesRgbPrefix \cup NamedColors

\* Object.keys(o).forEach(key => { if (!sanitized.hasOwnProperty(key)) ... }):
\* a property the sanitizer did not set is copied from the input as it is
CopyCustom(set, raw) == IF set.t # "absent" THEN set ELSE raw

\* sanitizeNode of part_004
sanitizeNode_part4(node) ==
  LET size  == IF node.size.t = "number" /\ node.size.n > 0
                 THEN Num(Clamp(1, 100, node.size.n)) ELSE Absent
      color == IF node.color.t = "string" /\ node.color.s # ""
                  /\ isValidColor(node.color)
                 THEN node.color ELSE Absent
  IN  [id    |-> node.id,
       size  |-> CopyCustom(size, node.size),
       color |-> CopyCustom(color, node.color)]

\* sanitizeLink of part_004
sanitizeLink_part4(link) ==
  LET color == IF link.color.t = "string" /\ link.color.s # ""
                  /\ isValidColor(link.color)
                 THEN link.color ELSE Absent
      width == IF link.width.t = "number" /\ link.width.n > 0
                 THEN Num(Clamp(1, 20, link.width.n)) ELSE Absent
  IN  [source |-> link.source,
       target |-> link.target,
       width  |-> CopyCustom(width, link.width),
       color  |-> CopyCustom(color, link.color)]

\* Number(v) || dflt for the values of the inputs: a number, or a string
\* that is not numeric (NaN)
NumberOr(v, dflt) ==
  IF v.t = "number" /\ v.n # 0 THEN v.n ELSE dflt

\* sanitizeNode of part_005: {...node}, size = Math.max(0, Number(size) || 0)
sanitizeNode(node) ==
  [id    |-> node.id,
   size  |-> IF node.size.t = "absent" THEN Absent
             ELSE Num(MathMax(0, NumberOr(node.size, 0))),
   color |-> node.color]

\* sanitizeLink of part_005: {...link}, width = Math.max(0, Number(width) || 1)
sanitizeLink(link) ==
  [source |-> link.source,
   target |-> link.target,
   width  |-> IF link.width.t = "absent" THEN Absent
              ELSE Num(MathMax(0, NumberOr(link.width, 1))),
   color  |-> link.color]

\* sanitizeData: nodes.map(sanitizeNode), links.map(sanitizeLink)
sanitizeData(impl, data) ==
  IF impl = "part_004"
    THEN [node |-> sanitizeNode_part4(data.node),
          link |-> sanitizeLink_part4(data.link)]
  ELSE [node |-> sanitizeNode(data.node), link |-> sanitizeLink(data.link)]

StyleColors == {Absent} \cup {Str(c) : c \in SampleColors}
NodeSizes == {Absent, Num(-5), Num(0), Num(1), Num(50), Num(150), Str("big")}
LinkWidths == {Absent, Num(-3), Num(0), Num(2), Num(50), Str("wide")}

StyledNodes ==
  {[id |-> i, size |-> z, color |-> c] :
     i \in {Num(1), Str("a")}, z \in NodeSizes, c \in StyleColors}

StyledLinks ==
  {[source |-> Num(1), target |-> t, width |-> w, color |-> c] :
     t \in {Num(2), Str("a")}, w \in LinkWidths, c \in StyleColors}

InitSanitize ==
  /\ zImpl \in {"part_004", "part_005"}
  /\ zIn \in {[node |-> n, link |-> l] : n \in StyledNodes, l \in StyledLinks}
  /\ zOut = zIn
  /\ zStage = "input"

SanitizeIdle ==
  /\ zImpl = "part_004"
  /\ zIn = [node |-> [id |-> Num(1), size |-> Absent, color |-> Absent],
            link |-> [source |-> Num(1), target |-> Num(2),
                      width |-> Absent, color |-> Absent]]
  /\ zOut = zIn
  /\ zStage = "idle"

\* this.dataService.sanitizeData(value)
Sanitize ==
  /\ zStage = "input"
  /\ zOut' = sanitizeData(zImpl, zIn)
  /\ zStage' = "sanitized"
  /\ UNCHANGED <<zImpl, zIn, nIn, nStage, nCheck, nOut, nSim, viewVars,
                 sceneVars>>

NextSanitize == Sanitize


-----------------------------------------------------------------------------
(* Exact rational arithmetic for scales and coordinates: <<n, d>>, d > 0 *)

RECURSIVE GCD(_, _)
GCD(a, b) == IF b = 0 THEN a ELSE GCD(b, a % b)

Abs(a) == IF a < 0 THEN -a ELSE a

R(n, d) ==
  LET sn == IF d < 0 THEN -n ELSE n
      sd == Abs(d)
      g  == GCD(Abs(sn), sd)
  IN  <<sn \div g, sd \div g>>

RInt(a)    == <<a, 1>>
RAdd(a, b) == R(a[1] * b[2] + b[1] * a[2], a[2] * b[2])
RSub(a, b) == R(a[1] * b[2] - b[1] * a[2], a[2] * b[2])
RMul(a, b) == R(a[1] * b[1], a[2] * b[2])
RDiv(a, b) == R(a[1] * b[2], a[2] * b[1])
RLe(a, b)  == a[1] * b[2] <= b[1] * a[2]
RLt(a, b)  == a[1] * b[2] < b[1] * a[2]
RMin(a, b) == IF RLe(a, b) THEN a ELSE b
RMax(a, b) == IF RLe(a, b) THEN b ELSE a

-----------------------------------------------------------------------------
(* d3-zoom: transforms, zoom.transform, zoom.scaleBy *)

\* d3.zoomIdentity
zoomIdentity == [k |-> RInt(1), x |-> RInt(0), y |-> RInt(0)]

\* transform.translate(a, b)
Translate(t, a, b) ==
  [k |-> t.k, x |-> RAdd(t.x, RMul(t.k, a)), y |-> RAdd(t.y, RMul(t.k, b))]

\* transform.scale(f)
Scale(t, f) == [k |-> RMul(t.k, f), x |-> t.x, y |-> t.y]

\* Math.max(scaleExtent[0], Math.min(scaleExtent[1], k))
ClampToExtent(k, extent) == RMax(extent.min, RMin(extent.max, k))

\* a scale step that multiplies without clamping to the scale extent
ScaleByUnclamped(t, f, extent, size) ==
  LET p0x == R(size.w, 2)
      p0y == R(size.h, 2)
      p1x == RDiv(RSub(p0x, t.x), t.k)
      p1y == RDiv(RSub(p0y, t.y), t.k)
      k1  == RMul(t.k, f)
  IN  [k |-> k1, x |-> RSub(p0x, RMul(p1x, k1)), y |-> RSub(p0y, RMul(p1y, k1))]

\* zoom.scaleBy(selection, f): scale about the centre of the viewport, the
\* new scale clamped to the scale extent (the translate extent is unbounded)
ScaleBy(t, f, extent, size) ==
  LET p0x == R(size.w, 2)
      p0y == R(size.h, 2)
      p1x == RDiv(RSub(p0x, t.x), t.k)
      p1y == RDiv(RSub(p0y, t.y), t.k)
      k1  == ClampToExtent(RMul(t.k, f), extent)
  IN  [k |-> k1, x |-> RSub(p0x, RMul(p1x, k1)), y |-> RSub(p0y, RMul(p1y, k1))]

-----------------------------------------------------------------------------
(* Bounding boxes of a layout: a sequence of [px, x, y], px = the node has  *)
(* numeric x and y                                                          *)

SetMin(S) == CHOOSE m \in S : \A v \in S : m <= v
SetMax(S) == CHOOSE m \in S : \A v \in S : v <= m

Positioned(layout) ==
  SelectIdx(layout, {i \in 1..Len(layout) : layout[i].px}, 1)

BoundsOf(nodes) ==
  LET xs == {nodes[i].x : i \in 1..Len(nodes)}
      ys == {nodes[i].y : i \in 1..Len(nodes)}
  IN  [minX |-> SetMin(xs), maxX |-> SetMax(xs),
       minY |-> SetMin(ys), maxY |-> SetMax(ys)]

\* the padding constant of fitToView and the default of zoomToFit
FitPadding == 50
\* "Max zoom" of fitToView and calculateFitTransform
MaxFitZoom == 2

\* fitToView of the component (first class of the file): the transform handed
\* to zoom.transform, or t itself when the method returns early
fitToView(t, layout, size) ==
  LET nodes == Positioned(layout)
  IN  IF Len(nodes) = 0 THEN t
      ELSE
        LET b == BoundsOf(nodes)
            w == b.maxX - b.minX
            h == b.maxY - b.minY
        IN  IF w = 0 \/ h = 0 THEN t
            ELSE
              LET scale == RMin(RMin(R(size.w - FitPadding * 2, w),
                                     R(size.h - FitPadding * 2, h)),
                                RInt(MaxFitZoom))
                  cx == R(b.minX + b.maxX, 2)
                  cy == R(b.minY + b.maxY, 2)
              IN  Translate(
                    Scale(Translate(zoomIdentity, R(size.w, 2), R(size.h, 2)),
                          scale),
                    RSub(RInt(0), cx), RSub(RInt(0), cy))

\* getBounds + fitToView of the component (last class of the file); its
\* nodes are positioned by d3.forceSimulation before the view can be fitted
fitToView_v4(t, layout, size) ==
  IF Len(layout) = 0 THEN t
  ELSE
    LET b == BoundsOf(layout)
        w == b.maxX - b.minX
        h == b.maxY - b.minY
    IN  IF w = 0 \/ h = 0 THEN t
        ELSE
          LET midX  == RAdd(RInt(b.minX), R(w, 2))
              midY  == RAdd(RInt(b.minY), R(h, 2))
              scale == RMul(RMin(R(size.w, w), R(size.h, h)), R(9, 10))
              tx    == RSub(R(size.w, 2), RMul(scale, midX))
              ty    == RSub(R(size.h, 2), RMul(scale, midY))
          IN  Scale(Translate(zoomIdentity, tx, ty), scale)

\* D3AbstractionService.calculateBounds: null is modelled as the empty
\* sequence of positioned nodes
calculateBounds(layout) == Positioned(layout)

\* D3AbstractionService.calculateFitTransform: a quotient by a zero width or
\* height is Infinity (the padded viewport is positive), which Math.min
\* never picks against the maximum fit zoom
calculateFitTransform(nodes, size) ==
  LET b == BoundsOf(nodes)
      w == b.maxX - b.minX
      h == b.maxY - b.minY
      cands == {RInt(MaxFitZoom)}
               \cup (IF w = 0 THEN {} ELSE {R(size.w - FitPadding * 2, w)})
               \cup (IF h = 0 THEN {} ELSE {R(size.h - FitPadding * 2, h)})
      scale == CHOOSE c \in cands : \A d \in cands : RLe(c, d)
      cx == R(b.minX + b.maxX, 2)
      cy == R(b.minY + b.maxY, 2)
  IN  [k |-> scale,
       x |-> RSub(R(size.w, 2), RMul(cx, scale)),
       y |-> RSub(R(size.h, 2), RMul(cy, scale))]

\* NetworkRendererService.zoomToFit
zoomToFit(t, layout, size) ==
  LET nodes == calculateBounds(layout)
  IN  IF Len(nodes) = 0 THEN t
      ELSE LET f == calculateFitTransform(nodes, size)
           IN  Scale(Translate(zoomIdentity, f.x, f.y), f.k)

-----------------------------------------------------------------------------
(* SpecView: the view transform under the zoom API and zoom gestures *)

Unset == RInt(0)

\* a || d on numbers: 0 and undefined are falsy
OrDefault(v, d) == IF v = Unset THEN d ELSE v

\* .scaleExtent([0.1, 10]) and the defaults of getZoomConfig
DefaultMinZoom == R(1, 10)
DefaultMaxZoom == RInt(10)

\* setupZoom: the first class passes the literal extent; the last class and
\* the renderer service read config.zoomConfig
setupZoomExtent(impl, cfg) ==
  IF impl = "v1" THEN [min |-> DefaultMinZoom, max |-> DefaultMaxZoom]
  ELSE [min |-> OrDefault(cfg.minZoom, DefaultMinZoom),
        max |-> OrDefault(cfg.maxZoom, DefaultMaxZoom)]

\* the step factor of zoomIn / zoomOut: scaleBy(1.5), scaleBy(1 / 1.5)
ZoomStep == R(3, 2)

ZoomConfigs ==
  { [minZoom |-> Unset, maxZoom |-> Unset, zoomOnLoad |-> "unset",
     initialZoom |-> Unset, initialX |-> 0, initialY |-> 0],
    [minZoom |-> R(1, 2), maxZoom |-> RInt(4), zoomOnLoad |-> "fit",
     initialZoom |-> Unset, initialX |-> 0, initialY |-> 0],
    [minZoom |-> R(1, 4), maxZoom |-> RInt(2), zoomOnLoad |-> "custom",
     initialZoom |-> RInt(3), initialX |-> 10, initialY |-> 20],
    [minZoom |-> Unset, maxZoom |-> RInt(4), zoomOnLoad |-> "center",
     initialZoom |-> Unset, initialX |-> 0, initialY |-> 0] }

ViewSizes == {[w |-> 800, h |-> 600], [w |-> 400, h |-> 300]}

At(a, b)   == [px |-> TRUE, x |-> a, y |-> b]
Unplaced   == [px |-> FALSE, x |-> 0, y |-> 0]

Layouts ==
  { <<>>,                                  \* no node
    <<At(100, 100)>>,                      \* a single node
    <<Unplaced>>,                          \* a node without x and y
    <<At(0, 0), At(100, 50)>>,             \* a box 100 wide and 50 high
    <<At(20, 30), At(220, 30)>>,           \* zero height
    <<At(0, 0), At(8000, 6000)>>,          \* a layout far larger than the view
    <<At(390, 290), At(400, 300)>>,        \* a layout far smaller than the view
    <<At(0, 0), Unplaced, At(100, 50)>> }

\* d3.forceSimulation gives every node of the last class and of the renderer
\* service numeric x and y before the view is used
LayoutsOf(impl) ==
  IF impl = "v4" THEN {l \in Layouts : \A i \in 1..Len(l) : l[i].px}
  ELSE Layouts

InitView ==
  /\ vImpl \in {"v1", "v4", "svc"}
  /\ vCfg \in ZoomConfigs
  /\ vSize \in ViewSizes
  /\ vLayout \in LayoutsOf(vImpl)
  /\ vT = zoomIdentity
  /\ vExtent = setupZoomExtent(vImpl, vCfg)
  /\ vInitial = FALSE
  /\ vOps = 0
  /\ vLast = [op |-> "init", before |-> zoomIdentity]

\* the bookkeeping of every operation on the view
Did(op) ==
  /\ vOps < MaxViewOps
  /\ vOps' = vOps + 1
  /\ vLast' = [op |-> op, before |-> vT]

\* onZoomIn / zoomIn: svg.transition().call(zoom.scaleBy, 1.5)
onZoomIn ==
  /\ vT' = ScaleBy(vT, ZoomStep, vExtent, vSize)
  /\ Did("zoomIn")
  /\ UNCHANGED <<vImpl, vCfg, vSize, vLayout, vExtent, vInitial, normVars, sceneVars>>

\* onZoomOut / zoomOut: svg.transition().call(zoom.scaleBy, 1 / 1.5)
onZoomOut ==
  /\ vT' = ScaleBy(vT, RDiv(RInt(1), ZoomStep), vExtent, vSize)
  /\ Did("zoomOut")
  /\ UNCHANGED <<vImpl, vCfg, vSize, vLayout, vExtent, vInitial, normVars, sceneVars>>

\* the factors of a wheel or pinch gesture
WheelFactors == {RInt(2), R(1, 2), RInt(16)}

\* a wheel or pinch gesture of d3-zoom at the centre of the view: the scale
\* is clamped to the scale extent like scaleBy
Wheel ==
  /\ \E f \in WheelFactors : vT' = ScaleBy(vT, f, vExtent, vSize)
  /\ Did("wheel")
  /\ UNCHANGED <<vImpl, vCfg, vSize, vLayout, vExtent, vInitial, normVars, sceneVars>>

\* the pointer movements of a pan gesture
PanDeltas == {<<40, 0>>, <<0, -40>>}

\* a pan gesture of d3-zoom: the translation follows the pointer
Pan ==
  /\ \E d \in PanDeltas :
       vT' = [vT EXCEPT !.x = RAdd(vT.x, RInt(d[1])),
                        !.y = RAdd(vT.y, RInt(d[2]))]
  /\ Did("pan")
  /\ UNCHANGED <<vImpl, vCfg, vSize, vLayout, vExtent, vInitial, normVars, sceneVars>>

FitOf(impl, t, layout, size) ==
  CASE impl = "v1"  -> fitToView(t, layout, size)
    [] impl = "v4"  -> fitToView_v4(t, layout, size)
    [] impl = "svc" -> zoomToFit(t, layout, size)

\* onFitToView / fitToView / zoomToFit, also the deferred fit of
\* zoomOnLoad 'fit': zoom.transform sets the transform as given
onFitToView ==
  /\ vT' = FitOf(vImpl, vT, vLayout, vSize)
  /\ Did("fit")
  /\ UNCHANGED <<vImpl, vCfg, vSize, vLayout, vExtent, vInitial, normVars, sceneVars>>

\* onResetView / resetView / resetZoom: zoom.transform(d3.zoomIdentity)
onResetView ==
  /\ vT' = zoomIdentity
  /\ Did("reset")
  /\ UNCHANGED <<vImpl, vCfg, vSize, vLayout, vExtent, vInitial, normVars, sceneVars>>

\* setZoom(scale, position) and the 'custom' branch of the renderer service
setZoom(scale, px, py) ==
  Scale(Translate(zoomIdentity, RInt(px), RInt(py)), scale)

\* centerView: setZoom(1, {x: width / 2, y: height / 2})
centerView(size) ==
  Scale(Translate(zoomIdentity, R(size.w, 2), R(size.h, 2)), RInt(1))

\* the transform applyInitialZoom leaves, by class and zoomOnLoad
InitialZoomOf(impl, cfg, t, layout, size) ==
  LET mode == IF cfg.zoomOnLoad = "unset" /\ impl = "v4" THEN "center"
              ELSE cfg.zoomOnLoad
  IN  CASE mode = "fit" -> FitOf(impl, t, layout, size)
        [] mode = "center" /\ impl = "v4" -> centerView(size)
        [] mode = "center" /\ impl = "svc" -> zoomIdentity
        [] mode = "custom" /\ impl \in {"v4", "svc"}
             /\ cfg.initialZoom # Unset ->
               setZoom(cfg.initialZoom, cfg.initialX, cfg.initialY)
        [] OTHER -> t

\* applyInitialZoom: once in the last class (initialZoomApplied), on every
\* render in the other two
applyInitialZoom ==
  /\ vImpl = "v4" => ~vInitial
  /\ vT' = InitialZoomOf(vImpl, vCfg, vT, vLayout, vSize)
  /\ vInitial' = TRUE
  /\ Did("initial")
  /\ UNCHANGED <<vImpl, vCfg, vSize, vLayout, vExtent, normVars, sceneVars>>

\* the solver or new data moves the nodes
Relayout ==
  /\ vLayout' \in LayoutsOf(vImpl) \ {vLayout}
  /\ Did("layout")
  /\ UNCHANGED <<vImpl, vCfg, vSize, vT, vExtent, vInitial, normVars, sceneVars>>

\* a change of the width and height inputs
ResizeView ==
  /\ vSize' \in ViewSizes \ {vSize}
  /\ Did("resize")
  /\ UNCHANGED <<vImpl, vCfg, vLayout, vT, vExtent, vInitial, normVars, sceneVars>>

NextView ==
  \/ onZoomIn
  \/ onZoomOut
  \/ Wheel
  \/ Pan
  \/ onFitToView
  \/ onResetView
  \/ applyInitialZoom
  \/ Relayout
  \/ ResizeView

-----------------------------------------------------------------------------------------------------------------------------------------------------
(* d3.forceSimulation and d3-timer: alpha in thousandths; the forces are   *)
(* not modelled, a tick may move an unpinned node anywhere on the grid     *)

AlphaOne == 1000        \* the alpha of a new simulation: 1
AlphaMin == 1           \* simulation.alphaMin(): 0.001
AlphaReheat == 300      \* alpha(0.3), alphaTarget(0.3)

\* exists:  this.simulation is set
\* running: the timer of the simulation holds its callback
\* frame:   d3-timer has requested an animation frame that has not fired yet
\* halted:  stop() was called on the simulation, and neither restart() nor a
\*          new simulation followed (a history of the calls, for the claims)
NoSim == [exists |-> FALSE, running |-> FALSE, frame |-> FALSE,
          halted |-> FALSE, alpha |-> 0, alphaTarget |-> 0]

\* d3.forceSimulation(nodes): the timer starts with the simulation
NewSim == [exists |-> TRUE, running |-> TRUE, frame |-> TRUE,
           halted |-> FALSE, alpha |-> AlphaOne, alphaTarget |-> 0]

\* a stop that leaves the timer of the simulation running
stopKeepsTimer(sim) == sim

\* simulation.stop(): the timer drops its callback; a frame already requested
\* still fires and finds nothing to call
stop(sim) == [sim EXCEPT !.running = FALSE]

\* the simulation has cooled below alphaMin and its timer is off: the end
\* test of step() has stopped it
RanDown(sim) == sim.exists /\ ~sim.running /\ sim.alpha < AlphaMin

\* a restart that is forgotten: the timer stays as it is
restartForgotten(sim) == sim

\* simulation.restart(): the timer takes the callback back and requests a frame
restart(sim) == [sim EXCEPT !.running = TRUE, !.frame = TRUE]

\* the program's calls, with the history of the calls kept beside their effect
Stopped(sim)   == IF sim.exists THEN [stop(sim) EXCEPT !.halted = TRUE] ELSE sim
Restarted(sim) == [restart(sim) EXCEPT !.halted = FALSE]

\* config.forceConfig.alphaDecay of the configuration modelled
alphaDecay == 1

\* alpha += (alphaTarget - alpha) * alphaDecay
DecayAlpha(sim) ==
  [sim EXCEPT !.alpha = sim.alpha + (sim.alphaTarget - sim.alpha) * alphaDecay]

\* where Math.random() and the forces may put a node
Grid == {<<0, 0>>, <<100, 40>>}

\* where the pointer of a drag gesture may be
DragPoints == {<<50, 80>>, <<0, 0>>}

\* an integration step that moves a pinned node like any other
IntegrateIgnoringPin(node, x, y) == [node EXCEPT !.x = x, !.y = y]

\* the position step of tick() for one node: fx and fy override the
\* integration; (x, y) is where the forces would put the node
Integrate(node, x, y) ==
  IF node.pinned THEN [node EXCEPT !.x = node.fx, !.y = node.fy]
  ELSE [node EXCEPT !.x = x, !.y = y]

-----------------------------------------------------------------------------
(* The scene: the keyed join of renderNodes, the join of renderLinks and    *)
(* updatePositions                                                          *)

\* a node object of the solver; fx = fy = null is pinned = FALSE
SNode(id, p) ==
  [id |-> id, x |-> p[1], y |-> p[2], pinned |-> FALSE, fx |-> 0, fy |-> 0]

SceneKeys(scene) == {scene[i].key : i \in 1..Len(scene)}

\* selection.data(data, key): an element keeps its place when it is the first
\* of the group with its key and a datum has that key
Survives(scene, data, e) ==
  /\ \A j \in 1..(e - 1) : scene[j].key # scene[e].key
  /\ \E i \in 1..Len(data) : data[i].id = scene[e].key

\* the datum joins an existing element: the first datum with a key that an
\* element has; any other datum enters
IsUpdate(scene, data, i) ==
  /\ data[i].id \in SceneKeys(scene)
  /\ \A j \in 1..(i - 1) : data[j].id # data[i].id

FirstDatum(data, key) ==
  CHOOSE i \in 1..Len(data) :
    data[i].id = key /\ \A j \in 1..(i - 1) : data[j].id # key

\* exit().remove() and the rebinding of the update selection
UpdateSelection(scene, data) ==
  LET kept == SelectIdx(scene,
                       {e \in 1..Len(scene) : Survives(scene, data, e)}, 1)
  IN  [e \in 1..Len(kept) |->
         [kept[e] EXCEPT !.d = FirstDatum(data, kept[e].key)]]

RECURSIVE EnterSelection(_, _, _, _)
\* enter().append('g'): the element of an entering datum is inserted before
\* the element of the next datum of the update selection, or appended
EnterSelection(dom, scene, data, i) ==
  IF i > Len(data) THEN dom
  ELSE IF IsUpdate(scene, data, i) THEN EnterSelection(dom, scene, data, i + 1)
  ELSE
    LET later == {j \in (i + 1)..Len(data) : IsUpdate(scene, data, j)}
        new   == [key |-> data[i].id, d |-> i, tx |-> 0, ty |-> 0]
    IN  IF later = {}
          THEN EnterSelection(Append(dom, new), scene, data, i + 1)
        ELSE
          LET j == SetMin(later)
              p == CHOOSE q \in 1..Len(dom) : dom[q].d = j
          IN  EnterSelection(SubSeq(dom, 1, p - 1) \o <<new>>
                               \o SubSeq(dom, p, Len(dom)),
                             scene, data, i + 1)

\* renderNodes: the node entries after the join with the bound data
renderNodes(scene, data) ==
  EnterSelection(UpdateSelection(scene, data), scene, data, 1)

\* renderLinks: selection.data(links) joins by index
renderLinks(lines, links) ==
  [i \in 1..Len(links) |->
     IF i <= Len(lines)
       THEN [lines[i] EXCEPT !.source = links[i].source,
                             !.target = links[i].target]
     ELSE [source |-> links[i].source, target |-> links[i].target,
           x1 |-> 0, y1 |-> 0, x2 |-> 0, y2 |-> 0]]

\* d3.forceLink resolves an endpoint through a Map from id to node: the last
\* node with an id wins
NodeById(nodes, id) ==
  nodes[SetMax({i \in 1..Len(nodes) : nodes[i].id = id})]

\* a tick update that joins again without a key function: every node enters
\* once more behind the entries that are there
updatePositionsRejoining(scene, nodes) ==
  [e \in 1..Len(scene) |->
     [scene[e] EXCEPT !.tx = nodes[scene[e].d].x, !.ty = nodes[scene[e].d].y]]
  \o [i \in 1..Len(nodes) |->
        [key |-> nodes[i].id, d |-> i, tx |-> nodes[i].x, ty |-> nodes[i].y]]

\* updatePositions: every entry reads the position of its datum
updatePositions(scene, nodes) ==
  [e \in 1..Len(scene) |->
     [scene[e] EXCEPT !.tx = nodes[scene[e].d].x, !.ty = nodes[scene[e].d].y]]

updateLinkPositions(lines, nodes) ==
  [i \in 1..Len(lines) |->
     [lines[i] EXCEPT !.x1 = NodeById(nodes, lines[i].source).x,
                      !.y1 = NodeById(nodes, lines[i].source).y,
                      !.x2 = NodeById(nodes, lines[i].target).x,
                      !.y2 = NodeById(nodes, lines[i].target).y]]

-----------------------------------------------------------------------------
(* SpecScene: the component (first class of the file), its solver, its      *)
(* scene and the drag handlers                                              *)

Graph(ns, ls) == [hasNodes |-> TRUE, hasLinks |-> TRUE, nodes |-> ns, links |-> ls]

LinkOf(a, b) == [source |-> Prim(a), target |-> Prim(b)]

\* the graphs the host hands to the data input
SceneGraphs ==
  { Graph(<<>>, <<>>),
    Graph(<<[id |-> Num(1)]>>, <<>>),
    Graph(<<[id |-> Num(1)], [id |-> Num(2)]>>, <<LinkOf(Num(1), Num(2))>>),
    Graph(<<[id |-> Num(2)], [id |-> Num(3)]>>, <<LinkOf(Num(2), Num(3))>>),
    Graph(<<[id |-> Num(1)], [id |-> Str("1")]>>, <<>>),
    Graph(<<[id |-> Num(1)]>>, <<LinkOf(Num(1), Num(99))>>),
    [hasNodes |-> FALSE, hasLinks |-> TRUE, nodes |-> <<>>, links |-> <<>>] }

NoDrag == [active |-> FALSE, idx |-> 0, x |-> 0, y |-> 0, orphan |-> FALSE]

\* what the last handler was and what the properties need of it:
\*   shift     the shiftKey of the event that ended a drag
\*   halted    the simulation was halted when the handler began
\*   moved     the nodes whose position the handler changed
\*   rendered  render() ran to its end
\*   ranDown   the simulation had run down when the handler began
Last(op) == [op |-> op, shift |-> FALSE, halted |-> sSim.halted,
             moved |-> {}, rendered |-> FALSE, ranDown |-> RanDown(sSim)]

\* hoveredNodeSignal = null, the pointer over no node, nothing emitted
NoNode == "(none)"

HoverIdle ==
  /\ hPointer = NoNode
  /\ hHovered = NoNode
  /\ hLast = [to |-> NoNode, prev |-> NoNode, emitted |-> <<>>]

\* exit().remove() takes an entry from under the pointer without a
\* mouseleave: an element that is removed receives no event
PointerAfter ==
  /\ hPointer' = IF hPointer \in SceneKeys(sScene') THEN hPointer ELSE NoNode
  /\ UNCHANGED <<hHovered, hLast>>

InitScene ==
  /\ sDragImpl \in {"v1", "v4"}
  /\ sData \in {[graph |-> g, placed |-> FALSE] : g \in SceneGraphs}
  /\ sSvg = FALSE
  /\ sSim = NoSim
  /\ sNodes = <<>>
  /\ sLinks = <<>>
  /\ sScene = <<>>
  /\ sLines = <<>>
  /\ sForces = TRUE
  /\ sError = FALSE
  /\ sCounts = [nodes |-> 0, links |-> 0]
  /\ sDrag = NoDrag
  /\ sPhase = "new"
  /\ sLast = [op |-> "new", shift |-> FALSE, halted |-> FALSE,
              moved |-> {}, rendered |-> FALSE, ranDown |-> FALSE]
  /\ sBudget = 0
  /\ HoverIdle

SceneIdle ==
  /\ sDragImpl = "v1"
  /\ sData = [graph |-> Graph(<<>>, <<>>), placed |-> FALSE]
  /\ sSvg = FALSE
  /\ sSim = NoSim
  /\ sNodes = <<>>
  /\ sLinks = <<>>
  /\ sScene = <<>>
  /\ sLines = <<>>
  /\ sForces = TRUE
  /\ sError = FALSE
  /\ sCounts = [nodes |-> 0, links |-> 0]
  /\ sDrag = NoDrag
  /\ sPhase = "idle"
  /\ sLast = [op |-> "idle", shift |-> FALSE, halted |-> FALSE,
              moved |-> {}, rendered |-> FALSE, ranDown |-> FALSE]
  /\ sBudget = 0
  /\ HoverIdle

\* the nodes setupSimulation hands to d3.forceSimulation: the objects of
\* this.data that passed the filter, placed at random when they have no x, y
SimulationNodes(data, clean, pos) ==
  IF data.placed THEN sNodes
  ELSE [i \in 1..Len(clean.nodes) |-> SNode(clean.nodes[i].id.s, pos[i])]

\* this.simulationNodes.length > 0 ? this.simulationNodes : nodes
BoundNodes(simNodes, clean) ==
  IF Len(simNodes) > 0 THEN simNodes
  ELSE [i \in 1..Len(clean.nodes) |-> SNode(clean.nodes[i].id.s, <<0, 0>>)]

\* this.simulationLinks.length > 0 ? this.simulationLinks : links
BoundLinks(simLinks, clean) ==
  IF Len(simLinks) > 0 THEN simLinks ELSE clean.links

\* render(): validateAndSanitizeData, setupSimulation, renderLinks,
\* renderNodes. data is this.data, svg is what setupSVG left (TRUE when it
\* ran), op names the caller and pos is what Math.random() gives new nodes
render(op, data, svg, pos) ==
  LET clean == validateAndSanitizeData(data.graph)
      graph == MutatedInput(data.graph)
  IN  IF clean.threw
        THEN \* caught by render: handleError
             /\ sData' = [data EXCEPT !.graph = graph]
             /\ sError' = TRUE
             /\ sLast' = Last(op)
             /\ UNCHANGED <<sSim, sNodes, sLinks, sScene, sLines, sDrag>>
      ELSE IF Len(clean.nodes) = 0
        THEN \* setupSimulation stops the simulation and returns: the
             \* references to the last simulated data stay
             /\ sData' = [data EXCEPT !.graph = graph]
             /\ sSim' = Stopped(sSim)
             /\ IF svg
                  THEN /\ sLines' = renderLinks(sLines, BoundLinks(sLinks, clean))
                       /\ sScene' = renderNodes(sScene, BoundNodes(sNodes, clean))
                       /\ sLast' = [Last(op) EXCEPT !.rendered = TRUE]
                       /\ UNCHANGED sError
                ELSE   \* this.g is undefined: renderLinks throws
                       /\ sError' = TRUE
                       /\ sLast' = Last(op)
                       /\ UNCHANGED <<sScene, sLines>>
             /\ UNCHANGED <<sNodes, sLinks, sDrag>>
      ELSE
        LET nodes == SimulationNodes(data, clean, pos)
            links == PrepareSimulation(clean).links
        IN  /\ sData' = [graph |-> graph, placed |-> TRUE]
            /\ sSim' = NewSim
            /\ sNodes' = nodes
            /\ sLinks' = links
            \* the handlers of a gesture in progress hold the node object
            \* they began with
            /\ sDrag' = IF sDrag.active /\ ~data.placed
                          THEN [sDrag EXCEPT !.orphan = TRUE] ELSE sDrag
            /\ IF svg
                 THEN /\ sLines' = renderLinks(sLines, BoundLinks(links, clean))
                      /\ sScene' = renderNodes(sScene, BoundNodes(nodes, clean))
                      /\ sLast' = [Last(op) EXCEPT !.rendered = TRUE]
                      /\ UNCHANGED sError
               ELSE   /\ sError' = TRUE
                      /\ sLast' = Last(op)
                      /\ UNCHANGED <<sScene, sLines>>

\* Math.random() * this.width, Math.random() * this.height for each node
Placements(n) == [1..n -> Grid]

\* NetworkStateService: the BehaviorSubject behind data$ starts with
\* { nodes: [], links: [] }, and the first class never calls updateData on it
StateData == Graph(<<>>, <<>>)

\* subscribeToStateChanges: data$ emits its current value to a new
\* subscriber, and the subscriber sets both count signals from it
subscribeToStateChanges(data) ==
  [nodes |-> Len(data.nodes), links |-> Len(data.links)]

\* ngOnInit: initializeVisualization, then subscribeToStateChanges, which
\* overwrites the counts initializeVisualization has set
initializeVisualization ==
  /\ sPhase = "new"
  /\ sPhase' = "live"
  /\ sCounts' = subscribeToStateChanges(StateData)
  /\ LET g == sData.graph
         validation == validateNetworkData(g)
     IN  IF ~g.hasNodes \/ ~g.hasLinks \/ ~validation.isValid
           THEN \* throw new Error(...): handleError
                /\ sError' = TRUE
                /\ sLast' = Last("init")
                /\ UNCHANGED <<sData, sSvg, sSim, sNodes, sLinks, sScene,
                               sLines, sDrag>>
         ELSE /\ sSvg' = TRUE
              /\ \E pos \in Placements(Len(g.nodes)) : render("init", sData, TRUE, pos)
  /\ UNCHANGED <<sBudget, sDragImpl, sForces, normVars, viewVars>>
  /\ PointerAfter

\* ngOnChanges with a new data input: updateData
updateData ==
  /\ sPhase = "live"
  /\ sBudget < MaxOps
  /\ sBudget' = sBudget + 1
  /\ \E g \in SceneGraphs :
       LET validation == validateNetworkData(g)
       IN  IF ~validation.isValid
             THEN /\ sData' = [graph |-> g, placed |-> FALSE]
                  /\ sError' = TRUE
                  /\ sLast' = Last("updateData")
                  /\ UNCHANGED <<sSim, sNodes, sLinks, sScene, sLines,
                                 sCounts, sDrag>>
           ELSE /\ sCounts' = [nodes |-> Len(g.nodes), links |-> Len(g.links)]
                /\ \E pos \in Placements(Len(g.nodes)) :
                     render("updateData", [graph |-> g, placed |-> FALSE],
                            sSvg, pos)
  /\ UNCHANGED <<sDragImpl, sSvg, sForces, sPhase, normVars, viewVars>>
  /\ PointerAfter

\* ngOnChanges with a new config input: updateConfig
updateConfig ==
  /\ sPhase = "live"
  /\ sBudget < MaxOps
  /\ sBudget' = sBudget + 1
  /\ \E pos \in Placements(Len(sData.graph.nodes)) :
       render("updateConfig", sData, sSvg, pos)
  /\ UNCHANGED <<sDragImpl, sSvg, sForces, sCounts, sPhase, normVars, viewVars>>
  /\ PointerAfter

\* ngOnChanges with a new width or height: handleResize
handleResize ==
  /\ sPhase = "live"
  /\ sBudget < MaxOps
  /\ sBudget' = sBudget + 1
  /\ sSim' = IF sSvg /\ sSim.exists
               THEN Restarted([sSim EXCEPT !.alpha = AlphaReheat])
             ELSE sSim
  /\ sLast' = Last("resize")
  /\ UNCHANGED <<sDragImpl, sData, sSvg, sNodes, sLinks, sScene, sLines,
                 sForces, sError, sCounts, sDrag, sPhase, normVars, viewVars,
                 hoverVars>>

\* the forces control: onToggleForces
onToggleForces ==
  /\ sPhase = "live"
  /\ sBudget < MaxOps
  /\ sBudget' = sBudget + 1
  /\ sForces' = ~sForces
  /\ sSim' = IF ~sSim.exists THEN sSim
             ELSE IF ~sForces
               THEN Restarted([sSim EXCEPT !.alpha = AlphaReheat])
             ELSE Stopped(sSim)
  /\ sLast' = Last("toggleForces")
  /\ UNCHANGED <<sDragImpl, sData, sSvg, sNodes, sLinks, sScene, sLines,
                 sError, sCounts, sDrag, sPhase, normVars, viewVars,
                 hoverVars>>

\* clearError
clearError ==
  /\ sPhase = "live"
  /\ sError
  /\ sError' = FALSE
  /\ sLast' = Last("clearError")
  /\ UNCHANGED <<sBudget, sDragImpl, sData, sSvg, sSim, sNodes, sLinks, sScene, sLines,
                 sForces, sCounts, sDrag, sPhase, normVars, viewVars,
                 hoverVars>>

\* what cleanup leaves of the entries of the svg: the first class and the
\* renderer service remove them (selectAll('*').remove()), the last class
\* takes the listeners off them and drops its reference to the svg
Cleared(impl, entries) == IF impl = "v4" THEN entries ELSE <<>>

\* ngOnDestroy: cleanup, in whatever state the component is, also before
\* ngOnInit and after an earlier ngOnDestroy
cleanup ==
  /\ sPhase \in {"new", "live", "destroyed"}
  /\ sPhase' = "destroyed"
  \* if (this.simulation) this.simulation.stop()
  /\ sSim' = Stopped(sSim)
  \* if (this.svg) ...
  /\ sScene' = Cleared(sDragImpl, sScene)
  /\ sLines' = Cleared(sDragImpl, sLines)
  /\ sLast' = Last("cleanup")
  /\ UNCHANGED <<sBudget, sDragImpl, sData, sSvg, sNodes, sLinks, sForces, sError,
                 sCounts, sDrag, normVars, viewVars>>
  /\ PointerAfter

\* an animation frame of d3-timer fires: the step of the simulation when its
\* timer still holds the callback (tick(), the tick listener, the end test)
Frame ==
  /\ sSim.frame
  /\ IF sSim.running
       THEN \E pos \in Placements(Len(sNodes)) :
              LET sim   == DecayAlpha(sSim)
                  nodes == [i \in 1..Len(sNodes) |->
                              Integrate(sNodes[i], pos[i][1], pos[i][2])]
                  \* the tick listener throws without this.g, and the end
                  \* test behind it is not reached
                  ends  == sSvg /\ sim.alpha < AlphaMin
              IN  /\ sSim' = [sim EXCEPT !.running = ~ends, !.frame = ~ends]
                  /\ sNodes' = nodes
                  /\ sScene' = IF sSvg THEN updatePositions(sScene, nodes)
                               ELSE sScene
                  /\ sLines' = IF sSvg THEN updateLinkPositions(sLines, nodes)
                               ELSE sLines
                  /\ sLast' = [Last("tick") EXCEPT !.moved =
                                 {i \in 1..Len(nodes) :
                                    <<nodes[i].x, nodes[i].y>>
                                      # <<sNodes[i].x, sNodes[i].y>>}]
     ELSE /\ sSim' = [sSim EXCEPT !.frame = FALSE]
          /\ sLast' = Last("frame")
          /\ UNCHANGED <<sNodes, sScene, sLines>>
  /\ UNCHANGED <<sBudget, sDragImpl, sData, sSvg, sLinks, sForces, sError, sCounts,
                 sDrag, sPhase, normVars, viewVars,
                 hoverVars>>

\* the 'start' listener of the drag behaviour, on the entry e of the scene;
\* event.active is 0 with one pointer
DragStart ==
  /\ sPhase = "live"
  /\ sBudget < MaxOps
  /\ sBudget' = sBudget + 1
  /\ ~sDrag.active
  /\ \E e \in 1..Len(sScene) :
       LET i == sScene[e].d
       IN  /\ sNodes' = [sNodes EXCEPT ![i].pinned = TRUE,
                                       ![i].fx = sNodes[i].x,
                                       ![i].fy = sNodes[i].y]
           /\ sDrag' = [active |-> TRUE, idx |-> i, x |-> sNodes[i].x,
                        y |-> sNodes[i].y, orphan |-> FALSE]
  /\ sSim' = Restarted([sSim EXCEPT !.alphaTarget = AlphaReheat])
  /\ sLast' = Last("dragStart")
  /\ UNCHANGED <<sDragImpl, sData, sSvg, sLinks, sScene, sLines, sForces,
                 sError, sCounts, sPhase, normVars, viewVars,
                 hoverVars>>

\* the 'drag' listener: the pin follows the pointer
DragMove ==
  /\ sDrag.active
  /\ \E p \in DragPoints :
       /\ sDrag' = [sDrag EXCEPT !.x = p[1], !.y = p[2]]
       /\ sNodes' = IF sDrag.orphan THEN sNodes
                    ELSE [sNodes EXCEPT ![sDrag.idx].fx = p[1],
                                        ![sDrag.idx].fy = p[2]]
  /\ sLast' = Last("drag")
  /\ UNCHANGED <<sBudget, sDragImpl, sData, sSvg, sSim, sLinks, sScene, sLines,
                 sForces, sError, sCounts, sPhase, normVars, viewVars,
                 hoverVars>>

\* the pin the 'end' listener leaves: setupNodeDrag and
\* createNodeDragBehavior clear it, the last class reads
\* event.sourceEvent.shiftKey
Released(impl, node, shiftKey) ==
  IF impl = "v4" /\ shiftKey THEN node
  ELSE [node EXCEPT !.pinned = FALSE, !.fx = 0, !.fy = 0]

\* the 'end' listener
DragEnd ==
  /\ sDrag.active
  /\ \E shiftKey \in BOOLEAN :
       /\ sNodes' = IF sDrag.orphan THEN sNodes
                    ELSE [sNodes EXCEPT ![sDrag.idx] =
                            Released(sDragImpl, sNodes[sDrag.idx], shiftKey)]
       /\ sLast' = [Last("dragEnd") EXCEPT !.shift = shiftKey]
  /\ sSim' = [sSim EXCEPT !.alphaTarget = 0]
  /\ sDrag' = [sDrag EXCEPT !.active = FALSE]
  /\ UNCHANGED <<sBudget, sDragImpl, sData, sSvg, sLinks, sScene, sLines, sForces,
                 sError, sCounts, sPhase, normVars, viewVars,
                 hoverVars>>

\* the width and height inputs of the component whose nodes are repositioned
SceneWidth == 600
SceneHeight == 400

\* Math.ceil(Math.sqrt(n)), n >= 1
CeilSqrt(n) == CHOOSE c \in 1..n : c * c >= n /\ (c - 1) * (c - 1) < n

\* the cell of the grid forceRepositionNodes puts the node of an index in
\* (indices from 0), of n nodes
GridCell(index, n) ==
  LET cols == CeilSqrt(n)
      rows == (n + cols - 1) \div cols
      cellWidth  == SceneWidth \div (cols + 1)
      cellHeight == SceneHeight \div (rows + 1)
  IN  <<((index % cols) + 1) * cellWidth, ((index \div cols) + 1) * cellHeight>>

\* forceRepositionNodes (third class of the file): every simulated node is
\* put on a grid and unpinned, the simulation is restarted with alpha 1 and
\* updatePositions runs at once
forceRepositionNodes ==
  /\ sPhase = "live"
  /\ Len(sNodes) > 0
  /\ sBudget < MaxOps
  /\ sBudget' = sBudget + 1
  /\ sNodes' = [i \in 1..Len(sNodes) |->
                  [sNodes[i] EXCEPT !.x = GridCell(i - 1, Len(sNodes))[1],
                                    !.y = GridCell(i - 1, Len(sNodes))[2],
                                    !.pinned = FALSE, !.fx = 0, !.fy = 0]]
  /\ sSim' = IF sSim.exists THEN Restarted([sSim EXCEPT !.alpha = AlphaOne])
             ELSE sSim
  /\ sScene' = IF sSvg THEN updatePositions(sScene, sNodes') ELSE sScene
  /\ sLines' = IF sSvg THEN updateLinkPositions(sLines, sNodes') ELSE sLines
  /\ sLast' = Last("reposition")
  /\ UNCHANGED <<sDragImpl, sData, sSvg, sLinks, sForces, sError, sCounts,
                 sDrag, sPhase, normVars, viewVars, hoverVars>>

NextReposition ==
  \/ initializeVisualization
  \/ updateConfig
  \/ Frame
  \/ DragStart
  \/ DragMove
  \/ DragEnd
  \/ forceRepositionNodes

NextScene ==
  \/ initializeVisualization
  \/ updateData
  \/ updateConfig
  \/ handleResize
  \/ onToggleForces
  \/ clearError
  \/ cleanup
  \/ Frame
  \/ DragStart
  \/ DragMove
  \/ DragEnd

-----------------------------------------------------------------------------
(* SpecHover: the pointer over the node entries of the component's scene,   *)
(* with the data and configuration updates that rebuild the scene           *)

componentVars == <<sDragImpl, sData, sSvg, sSim, sNodes, sLinks, sScene,
                   sLines, sForces, sError, sCounts, sDrag, sPhase, sLast,
                   sBudget>>

\* this.nodeHover.emit({type: 'nodeHover', data: ...}); data is null (NoNode)
\* in the event of the 'mouseleave' listener
HoverEvent(node) == [type |-> "nodeHover", data |-> node]

\* the 'mouseenter' listener of addNodeInteractions on the entry of node
mouseenter(node) == [hovered |-> node, emitted |-> <<HoverEvent(node)>>]

\* the 'mouseleave' listener
mouseleave == [hovered |-> NoNode, emitted |-> <<HoverEvent(NoNode)>>]

\* the pointer moves from where it is to another node entry or off the
\* nodes: the browser dispatches mouseleave to the entry the pointer was
\* over, then mouseenter to the entry it is over now
PointerMove ==
  /\ sPhase = "live"
  /\ \E to \in SceneKeys(sScene) \cup {NoNode} :
       /\ to # hPointer
       /\ LET left    == IF hPointer # NoNode
                           THEN mouseleave
                         ELSE [hovered |-> hHovered, emitted |-> <<>>]
              entered == IF to # NoNode
                           THEN mouseenter(to)
                         ELSE [hovered |-> left.hovered, emitted |-> <<>>]
          IN  /\ hHovered' = entered.hovered
              /\ hLast' = [to |-> to, prev |-> hHovered,
                           emitted |-> left.emitted \o entered.emitted]
       /\ hPointer' = to
  /\ UNCHANGED <<componentVars, normVars, viewVars>>

NextHover ==
  \/ initializeVisualization
  \/ updateData
  \/ updateConfig
  \/ cleanup
  \/ PointerMove

-----------------------------------------------------------------------------
(* The specifications *)

vars == <<normVars, viewVars, sceneVars>>

NormIdle ==
  /\ nIn = [hasNodes |-> TRUE, hasLinks |-> TRUE, nodes |-> <<>>, links |-> <<>>]
  /\ nStage = "idle"
  /\ nCheck = NoCheck
  /\ nOut = Thrown
  /\ nSim = NoSimulation

ViewIdle ==
  /\ vImpl = "v1"
  /\ vCfg = CHOOSE c \in ZoomConfigs : c.zoomOnLoad = "unset"
  /\ vSize = [w |-> 800, h |-> 600]
  /\ vLayout = <<>>
  /\ vT = zoomIdentity
  /\ vExtent = [min |-> DefaultMinZoom, max |-> DefaultMaxZoom]
  /\ vInitial = FALSE
  /\ vOps = 0
  /\ vLast = [op |-> "idle", before |-> zoomIdentity]

(* SpecDeferred: applyInitialZoom of the first class defers the fit with   *)
(* setTimeout, and nothing cancels the timeout                              *)

DeferredIdle == tPending = 0 /\ tDestroyed = FALSE

\* render() -> applyInitialZoom(): with zoomOnLoad 'fit' a timeout of 100 ms
\* is set for fitToView; render runs at ngOnInit and on every data or
\* configuration change
scheduleInitialFit ==
  /\ ~tDestroyed
  /\ tPending' = IF vCfg.zoomOnLoad = "fit" THEN tPending + 1 ELSE tPending
  /\ Did("render")
  /\ UNCHANGED <<vImpl, vCfg, vSize, vLayout, vT, vExtent, vInitial,
                 tDestroyed, pipelineVars, componentVars, hoverVars, serviceVars>>

\* the timeout fires: fitToView() reads this.data.nodes and calls
\* zoom.transform on this.svg, which cleanup leaves set
deferredFit ==
  /\ tPending > 0
  /\ tPending' = tPending - 1
  /\ vT' = fitToView(vT, vLayout, vSize)
  /\ vLast' = [op |-> "deferredFit", before |-> vT]
  /\ UNCHANGED <<vImpl, vCfg, vSize, vLayout, vExtent, vInitial, vOps,
                 tDestroyed, pipelineVars, componentVars, hoverVars, serviceVars>>

\* ngOnDestroy: destroy$ completes and cleanup() stops the simulation and
\* empties the svg; no clearTimeout
ngOnDestroy ==
  /\ ~tDestroyed
  /\ tDestroyed' = TRUE
  /\ vLast' = [op |-> "destroy", before |-> vT]
  /\ UNCHANGED <<vImpl, vCfg, vSize, vLayout, vT, vExtent, vInitial, vOps,
                 tPending, pipelineVars, componentVars, hoverVars, serviceVars>>

\* the handlers of the live component that change the view or the layout
LiveView == ~tDestroyed /\ (onZoomIn \/ Pan \/ Relayout)

NextDeferred ==
  \/ scheduleInitialFit
  \/ deferredFit
  \/ ngOnDestroy
  \/ LiveView

(* SpecError: NetworkErrorService, its current error and the timeouts    *)
(* that clear recoverable errors                                           *)

\* everything outside the services below
libraryVars == <<nIn, nStage, nCheck, nOut, nSim, sanVars, deferVars,
                 serviceVars, viewVars, componentVars, hoverVars>>

\* the handleError calls of one run
MaxHandled == 3

\* errorLog keeps the last 100 errors
MaxLogged == 100

NoError == 0

ErrorTypes == {"data", "rendering", "interaction", "configuration"}

\* error messages, as the words they are made of
ErrorMessages == {<<"render", "failed">>, <<"Hover", "failed">>}

toLowerCase(word) == IF word = "Hover" THEN "hover" ELSE word

recoverableTypes == {"interaction"}

recoverableMessages == {"hover", "click", "temporary", "network request"}

\* error.message.toLowerCase().includes(msg) for one of the messages
isRecoverableError(error) ==
  \/ error.type \in recoverableTypes
  \/ \E i \in 1..Len(error.message) :
       toLowerCase(error.message[i]) \in recoverableMessages

\* logError: unshift, then keep the first 100
logError(log, id) ==
  LET added == <<[error |-> id, resolved |-> FALSE]>> \o log
  IN IF Len(added) > MaxLogged THEN SubSeq(added, 1, MaxLogged) ELSE added

\* markErrorAsResolved: errorLog.find(log => log.error === error), the
\* first entry of the error
markErrorAsResolved(log, id) ==
  LET hits == {i \in 1..Len(log) : log[i].error = id}
  IN IF hits = {} THEN log
     ELSE LET first == CHOOSE i \in hits : \A j \in hits : i <= j
          IN [log EXCEPT ![first].resolved = TRUE]

\* the timeout callback of handleError, with the comparison of a callback
\* that clears whatever is current
autoClearAny(current, error) == TRUE

\* the timeout callback of handleError: if (this.currentError === error)
autoClear(current, error) == current = error

InitError ==
  /\ eMade = <<>>
  /\ eCurrent = NoError
  /\ eTimers = <<>>
  /\ eLog = <<>>
  /\ eLast = [op |-> "new", error |-> NoError, before |-> NoError]

ErrorIdle == InitError

\* handleError(error) with an error object made by createError for this
\* call, or with one the caller has kept from an earlier call
handleError ==
  /\ Len(eLog) < MaxHandled
  /\ \E id \in 1..(Len(eMade) + 1) :
       /\ IF id > Len(eMade)
          THEN \E type \in ErrorTypes : \E message \in ErrorMessages :
                 eMade' = Append(eMade, [type |-> type, message |-> message])
          ELSE eMade' = eMade
       /\ eLog' = logError(eLog, id)
       /\ eCurrent' = id
       /\ eTimers' = IF isRecoverableError(eMade'[id])
                       THEN Append(eTimers, id)
                     ELSE eTimers
       /\ eLast' = [op |-> "handleError", error |-> id, before |-> eCurrent]
  /\ UNCHANGED <<libraryVars, cacheVars, pluginVars>>

serviceClearError ==
  /\ eLast.op # "clearError"
  /\ eLog' = IF eCurrent # NoError THEN markErrorAsResolved(eLog, eCurrent)
             ELSE eLog
  /\ eCurrent' = NoError
  /\ eLast' = [op |-> "clearError", error |-> eCurrent, before |-> eCurrent]
  /\ UNCHANGED <<eMade, eTimers, libraryVars, cacheVars, pluginVars>>

\* the oldest timeout fires (all timeouts have the same delay)
ErrorTimeout ==
  /\ eTimers # <<>>
  /\ LET error == Head(eTimers)
     IN /\ IF autoClear(eCurrent, error)
           THEN /\ eLog' = markErrorAsResolved(eLog, eCurrent)
                /\ eCurrent' = NoError
           ELSE UNCHANGED <<eLog, eCurrent>>
        /\ eLast' = [op |-> "timeout", error |-> error, before |-> eCurrent]
  /\ eTimers' = Tail(eTimers)
  /\ UNCHANGED <<eMade, libraryVars, cacheVars, pluginVars>>

NextError ==
  \/ handleError
  \/ serviceClearError
  \/ ErrorTimeout

-----------------------------------------------------------------------------
(* SpecCache: NetworkCacheService.set with ensureSpace and removeLRU.  The *)
(* expiry of entries and the hit and miss counters are left out: the runs  *)
(* are shorter than the time to live                                       *)

\* config.maxSize is between 1 and MaxCacheSize
MaxCacheSize == 2

\* config.maxMemory, in the unit of the entry sizes
CacheMemory == 3

\* the clock values at which the operations start
MaxClock == 2

\* '' is a key like the others
CacheKeys == {"", "a", "b"}

EntrySizes == {1, 2}

CacheKeysOf(cache) == {cache[i].key : i \in 1..Len(cache)}

RECURSIVE CacheDelete(_, _)
CacheDelete(cache, key) ==
  IF cache = <<>> THEN <<>>
  ELSE IF Head(cache).key = key THEN Tail(cache)
  ELSE <<Head(cache)>> \o CacheDelete(Tail(cache), key)

RECURSIVE SumSizes(_, _)
SumSizes(cache, n) ==
  IF n = 0 THEN 0 ELSE cache[n].size + SumSizes(cache, n - 1)

RECURSIVE EnsureCount(_, _, _)
RECURSIVE EnsureMemory(_, _, _)

\* removeLRU at time now: forEach in insertion order keeps the first entry
\* with the smallest lastAccessed below now; if (oldestKey) delete
removeLRU(cache, now) ==
  LET older == {i \in 1..Len(cache) : cache[i].lastAccessed < now}
  IN IF older = {} THEN cache
     ELSE LET oldest == CHOOSE i \in older :
                  \A j \in older :
                    \/ cache[i].lastAccessed < cache[j].lastAccessed
                    \/ (cache[i].lastAccessed = cache[j].lastAccessed /\ i <= j)
              oldestKey == cache[oldest].key
          IN IF oldestKey # "" THEN CacheDelete(cache, oldestKey) ELSE cache

\* the time at which removeLRU finds an entry: while no entry is older than
\* Date.now() the loop spins, and the clock goes on
SpinUntil(cache, now) ==
  IF \E i \in 1..Len(cache) : cache[i].lastAccessed < now THEN now ELSE now + 1

calculateTotalSize(cache) == SumSizes(cache, Len(cache))

\* while (this.cache.size >= maxSize) removeLRU(); the result is the cache
\* and the clock when the loop ends, or hung when a pass changes nothing
EnsureCount(cache, now, maxSize) ==
  IF Len(cache) < maxSize THEN [hung |-> FALSE, cache |-> cache, now |-> now]
  ELSE LET at == SpinUntil(cache, now)
           after == removeLRU(cache, at)
       IN IF after = cache THEN [hung |-> TRUE, cache |-> cache, now |-> at]
          ELSE EnsureCount(after, at, maxSize)

\* while (totalSize + newEntrySize > maxMemory && this.cache.size > 0)
EnsureMemory(cache, now, newEntrySize) ==
  IF ~(calculateTotalSize(cache) + newEntrySize > CacheMemory /\ Len(cache) > 0)
  THEN [hung |-> FALSE, cache |-> cache, now |-> now]
  ELSE LET at == SpinUntil(cache, now)
           after == removeLRU(cache, at)
       IN IF after = cache THEN [hung |-> TRUE, cache |-> cache, now |-> at]
          ELSE EnsureMemory(after, at, newEntrySize)

ensureSpace(cache, now, maxSize, newEntrySize) ==
  LET counted == EnsureCount(cache, now, maxSize)
  IN IF counted.hung THEN counted
     ELSE EnsureMemory(counted.cache, counted.now, newEntrySize)

\* Map.set: the entry of a key that is present is replaced where it is
MapSet(cache, entry) ==
  IF entry.key \in CacheKeysOf(cache)
  THEN [i \in 1..Len(cache) |->
          IF cache[i].key = entry.key THEN entry ELSE cache[i]]
  ELSE Append(cache, entry)

InitCache ==
  /\ kCache = <<>>
  /\ kNow = 0
  /\ kMaxSize \in 1..MaxCacheSize
  /\ kHung = FALSE
  /\ kLast = [op |-> "new", key |-> ""]

CacheIdle ==
  /\ kCache = <<>>
  /\ kNow = 0
  /\ kMaxSize = 1
  /\ kHung = FALSE
  /\ kLast = [op |-> "new", key |-> ""]

\* set(key, data)
cacheSet ==
  /\ ~kHung
  /\ kNow <= MaxClock
  /\ \E key \in CacheKeys : \E size \in EntrySizes :
       LET entry == [key |-> key, lastAccessed |-> kNow, size |-> size]
           space == ensureSpace(kCache, kNow, kMaxSize, size)
       IN /\ kHung' = space.hung
          /\ kNow' = space.now
          /\ kCache' = IF space.hung THEN space.cache
                       ELSE MapSet(space.cache, entry)
          /\ kLast' = [op |-> "set", key |-> key]
  /\ UNCHANGED <<kMaxSize, libraryVars, errorVars, pluginVars>>

\* get(key) of a key that is present
cacheGet ==
  /\ ~kHung
  /\ \E i \in 1..Len(kCache) :
       /\ kCache[i].lastAccessed # kNow
       /\ kCache' = [kCache EXCEPT ![i].lastAccessed = kNow]
       /\ kLast' = [op |-> "get", key |-> kCache[i].key]
  /\ UNCHANGED <<kNow, kMaxSize, kHung, libraryVars, errorVars, pluginVars>>

\* updateConfig({maxSize}): cleanup() removes expired entries only
cacheUpdateConfig ==
  /\ ~kHung
  /\ \E maxSize \in 1..MaxCacheSize :
       /\ maxSize # kMaxSize
       /\ kMaxSize' = maxSize
  /\ kLast' = [op |-> "updateConfig", key |-> ""]
  /\ UNCHANGED <<kCache, kNow, kHung, libraryVars, errorVars, pluginVars>>

\* time passes between two calls
ClockTick ==
  /\ ~kHung
  /\ kNow < MaxClock
  /\ kNow' = kNow + 1
  /\ kLast' = [op |-> "wait", key |-> ""]
  /\ UNCHANGED <<kCache, kMaxSize, kHung, libraryVars, errorVars, pluginVars>>

NextCache ==
  \/ cacheSet
  \/ cacheGet
  \/ cacheUpdateConfig
  \/ ClockTick

-----------------------------------------------------------------------------
(* SpecPlugin: the calls of the async installPlugin, each running to its   *)
(* await and resuming when the promise of plugin.install settles           *)

\* the installPlugin calls of one run
MaxCalls == 3

PluginIds == {"p", "q"}

InitPlugin ==
  /\ pPlugins = {}
  /\ pCalls = <<>>
  /\ pRuns = [id \in PluginIds |-> 0]

PluginIdle == InitPlugin

\* the call up to its first await: validatePlugin, the plugins.has test,
\* then plugin.install(context) is called and the call waits for it
installPluginBegin ==
  /\ Len(pCalls) < MaxCalls
  /\ \E id \in PluginIds : \E valid \in BOOLEAN :
       IF ~valid \/ id \in pPlugins
       THEN /\ pCalls' = Append(pCalls, [id |-> id, pc |-> "returned",
                                          success |-> FALSE, rejected |-> FALSE])
            /\ UNCHANGED pRuns
       ELSE /\ pCalls' = Append(pCalls, [id |-> id, pc |-> "await",
                                          success |-> FALSE, rejected |-> FALSE])
            /\ pRuns' = [pRuns EXCEPT ![id] = @ + 1]
  /\ UNCHANGED <<pPlugins, libraryVars, errorVars, cacheVars>>

\* the promise of plugin.install settles and the call goes on: it registers
\* the plugin and returns success, or the catch returns the failure
installPluginResume ==
  /\ \E c \in 1..Len(pCalls) : \E resolved \in BOOLEAN :
       /\ pCalls[c].pc = "await"
       /\ IF resolved
          THEN /\ pPlugins' = pPlugins \cup {pCalls[c].id}
               /\ pCalls' = [pCalls EXCEPT ![c].pc = "returned",
                                           ![c].success = TRUE]
          ELSE /\ UNCHANGED pPlugins
               /\ pCalls' = [pCalls EXCEPT ![c].pc = "returned",
                                           ![c].rejected = TRUE]
  /\ UNCHANGED <<pRuns, libraryVars, errorVars, cacheVars>>

NextPlugin ==
  \/ installPluginBegin
  \/ installPluginResume

UtilIdle == ErrorIdle /\ CacheIdle /\ PluginIdle

(* SpecService: the renderer service (render, updatePositions) over the  *)
(* first D3AbstractionService, and the component built on                  *)
(* NetworkStateService (updateVisualization, onTick, cleanup) over the     *)
(* second one                                                              *)

MaxRenders == 3

\* coordinates: 0 and a value that is not 0
Positions == {0, 1}

RendererImpls == {"service", "state"}

\* the graphs handed to a render pass: distinct ids, links between nodes of
\* the graph, the endpoints given as ids
RenderIdSeqs == {<<>>, <<1>>, <<2>>, <<1, 2>>, <<2, 1>>}

RenderLinkSeqs(ids) ==
  IF Len(ids) = 2
  THEN {<<>>, <<[source |-> ids[1], target |-> ids[2], resolved |-> FALSE]>>}
  ELSE {<<>>}

\* forceSimulation(nodes) gives every node without a position one
PlacedNodes(ids) ==
  {[i \in 1..Len(ids) |-> [id |-> ids[i], x |-> p[i][1], y |-> p[i][2]]] :
     p \in [1..Len(ids) -> Positions \X Positions]}

NodeWithId(nodes, id) == CHOOSE i \in 1..Len(nodes) : nodes[i].id = id

\* first createSimulation: forceLink gets copies of the links ({...link,
\* source: id, target: id}) and replaces the endpoints of the copies by
\* the node objects; the links it was given are not written
createSimulationCopies(links) == links

\* second createSimulation: forceLink(data.links) replaces the endpoints of
\* the given link objects by the node objects
createSimulationInPlace(links) ==
  [i \in 1..Len(links) |-> [links[i] EXCEPT !.resolved = TRUE]]

\* selectAll('.node').data(nodes, d => d.id.toString()): an element whose
\* key is in the new data is kept and rebound, the others are removed, and
\* an element is appended for every new key
JoinNodes(scene, nodes, pass) ==
  [i \in 1..Len(nodes) |->
     LET old == {e \in 1..Len(scene) : scene[e].key = nodes[i].id}
     IN IF old # {}
        THEN [scene[CHOOSE e \in old : TRUE] EXCEPT !.d = i]
        ELSE [key |-> nodes[i].id, d |-> i, born |-> pass, tx |-> 0, ty |-> 0]]

\* selectAll('.link').data(links): joined by index
JoinLinks(lines, links, pass) ==
  [i \in 1..Len(links) |->
     IF i <= Len(lines)
     THEN lines[i]
     ELSE [born |-> pass, x1 |-> 0, y1 |-> 0, x2 |-> 0, y2 |-> 0]]

\* (d.source as NetworkNode).x || 0 : the x of the node object when the
\* endpoint is one, undefined || 0 when it is an id
EndpointX(nodes, link, end) ==
  IF link.resolved THEN nodes[NodeWithId(nodes, link[end])].x ELSE 0

EndpointY(nodes, link, end) ==
  IF link.resolved THEN nodes[NodeWithId(nodes, link[end])].y ELSE 0

\* updatePositions of the renderer service and onTick of the component:
\* the attributes of the existing elements, from their bound data
NodePositions(scene, nodes) ==
  [e \in 1..Len(scene) |->
     [scene[e] EXCEPT !.tx = nodes[scene[e].d].x, !.ty = nodes[scene[e].d].y]]

LinkPositions(lines, links, nodes) ==
  [i \in 1..Len(lines) |->
     [lines[i] EXCEPT !.x1 = EndpointX(nodes, links[i], "source"),
                      !.y1 = EndpointY(nodes, links[i], "source"),
                      !.x2 = EndpointX(nodes, links[i], "target"),
                      !.y2 = EndpointY(nodes, links[i], "target")]]

InitService ==
  /\ rImpl \in RendererImpls
  /\ rNodes = <<>>
  /\ rLinks = <<>>
  /\ rScene = <<>>
  /\ rLines = <<>>
  /\ rPass = 0
  /\ rSim = FALSE
  /\ rSubs = 0
  /\ rUpdates = 0
  /\ rLast = "new"

ServiceIdle ==
  /\ rImpl = "service"
  /\ rNodes = <<>>
  /\ rLinks = <<>>
  /\ rScene = <<>>
  /\ rLines = <<>>
  /\ rPass = 0
  /\ rSim = FALSE
  /\ rSubs = 0
  /\ rUpdates = 0
  /\ rLast = "new"

\* NetworkRendererService.render with forceConfig.enabled not false:
\* renderLinks, renderNodes, then setupForceSimulation, which stops the
\* simulation it had, creates one and subscribes to simulationEvents, the
\* one Subject of the D3AbstractionService, until destroy$
rendererRender ==
  /\ rImpl = "service"
  /\ rPass < MaxRenders
  /\ \E ids \in RenderIdSeqs : \E links \in RenderLinkSeqs(ids) :
       \E nodes \in PlacedNodes(ids) :
         /\ rNodes' = nodes
         /\ rLinks' = createSimulationCopies(links)
         /\ rScene' = JoinNodes(rScene, nodes, rPass + 1)
         /\ rLines' = JoinLinks(rLines, links, rPass + 1)
  /\ rPass' = rPass + 1
  /\ rSim' = TRUE
  /\ rSubs' = rSubs + 1
  /\ rLast' = "render"
  /\ UNCHANGED <<rImpl, rUpdates, pipelineVars, deferVars, viewVars, componentVars,
                 hoverVars>>

\* the data$ and config$ subscriptions and ngAfterViewInit of the component:
\* updateVisualization returns when the data has no node, otherwise
\* cleanup() removes every element, then createSimulation, renderNodes,
\* renderLinks
updateVisualization ==
  /\ rImpl = "state"
  /\ rPass < MaxRenders
  /\ rPass' = rPass + 1
  /\ rLast' = "render"
  /\ \E ids \in RenderIdSeqs : \E links \in RenderLinkSeqs(ids) :
       \E nodes \in PlacedNodes(ids) :
         IF Len(nodes) = 0
         THEN UNCHANGED <<rNodes, rLinks, rScene, rLines, rSim, rSubs>>
         ELSE /\ rNodes' = nodes
              /\ rLinks' = createSimulationInPlace(links)
              /\ rScene' = JoinNodes(<<>>, nodes, rPass + 1)
              /\ rLines' = JoinLinks(<<>>, links, rPass + 1)
              /\ rSim' = TRUE
              /\ rSubs' = 1
  /\ UNCHANGED <<rImpl, rUpdates, pipelineVars, deferVars, viewVars, componentVars,
                 hoverVars>>

\* one tick of the simulation: the solver moves the nodes, then every tick
\* listener (updatePositions, onTick) sets the attributes
ServiceTick ==
  /\ rSim
  /\ \E nodes \in PlacedNodes([i \in 1..Len(rNodes) |-> rNodes[i].id]) :
       /\ rNodes' = nodes
       /\ rScene' = NodePositions(rScene, nodes)
       /\ rLines' = LinkPositions(rLines, rLinks, nodes)
  /\ rUpdates' = rSubs
  /\ rLast' = "tick"
  /\ UNCHANGED <<rImpl, rLinks, rPass, rSim, rSubs, pipelineVars, deferVars,
                 viewVars, componentVars, hoverVars>>

\* handleResize of the component over the renderer service:
\* rendererService.initialize(svg, width, height, config), which begins
\* with cleanup() (the simulation stopped and dropped, the svg emptied, the
\* render context dropped) and builds the empty groups; destroy$ does not
\* fire, the subscriptions stay
rendererInitialize ==
  /\ rImpl = "service"
  /\ rLast # "resize"
  /\ rScene' = <<>>
  /\ rLines' = <<>>
  /\ rSim' = FALSE
  /\ rLast' = "resize"
  /\ UNCHANGED <<rImpl, rNodes, rLinks, rPass, rSubs, rUpdates, pipelineVars,
                 deferVars, viewVars, componentVars, hoverVars>>

NextService ==
  \/ rendererRender
  \/ updateVisualization
  \/ ServiceTick
  \/ rendererInitialize

ServiceStart ==
  /\ InitService
  /\ NormIdle /\ ViewIdle /\ SceneIdle /\ SanitizeIdle /\ DeferredIdle
  /\ UtilIdle

SpecService == ServiceStart /\ [][NextService]_vars

ErrorStart ==
  /\ InitError
  /\ NormIdle /\ ViewIdle /\ SceneIdle /\ SanitizeIdle /\ DeferredIdle
  /\ ServiceIdle /\ CacheIdle /\ PluginIdle

CacheStart ==
  /\ InitCache
  /\ NormIdle /\ ViewIdle /\ SceneIdle /\ SanitizeIdle /\ DeferredIdle
  /\ ServiceIdle /\ ErrorIdle /\ PluginIdle

PluginStart ==
  /\ InitPlugin
  /\ NormIdle /\ ViewIdle /\ SceneIdle /\ SanitizeIdle /\ DeferredIdle
  /\ ServiceIdle /\ ErrorIdle /\ CacheIdle

SpecPlugin == PluginStart /\ [][NextPlugin]_vars

SpecCache == CacheStart /\ [][NextCache]_vars

SpecError == ErrorStart /\ [][NextError]_vars

NormStart == InitNorm /\ ViewIdle /\ SceneIdle /\ SanitizeIdle /\ DeferredIdle /\ ServiceIdle /\ UtilIdle

SpecNorm == NormStart /\ [][NextNorm]_vars

SpecRenorm == NormStart /\ [][NextRenorm]_vars

ViewStart == InitView /\ NormIdle /\ SceneIdle /\ SanitizeIdle /\ DeferredIdle /\ ServiceIdle /\ UtilIdle

SpecView == ViewStart /\ [][NextView]_vars

SceneStart == InitScene /\ NormIdle /\ ViewIdle /\ SanitizeIdle /\ DeferredIdle /\ ServiceIdle /\ UtilIdle

SpecScene == SceneStart /\ [][NextScene]_vars

SanitizeStart == InitSanitize /\ NormIdle /\ ViewIdle /\ SceneIdle /\ DeferredIdle /\ ServiceIdle /\ UtilIdle

SpecSanitize == SanitizeStart /\ [][NextSanitize]_vars

RepositionStart == InitScene /\ NormIdle /\ ViewIdle /\ SanitizeIdle /\ DeferredIdle /\ ServiceIdle /\ UtilIdle

SpecReposition == RepositionStart /\ [][NextReposition]_vars

DeferredStart ==
  /\ InitView /\ vImpl = "v1"
  /\ NormIdle /\ SceneIdle /\ SanitizeIdle /\ DeferredIdle /\ ServiceIdle /\ UtilIdle

SpecDeferred == DeferredStart /\ [][NextDeferred]_vars

HoverStart == InitScene /\ NormIdle /\ ViewIdle /\ SanitizeIdle /\ DeferredIdle /\ ServiceIdle /\ UtilIdle

SpecHover == HoverStart /\ [][NextHover]_vars

-----------------------------------------------------------------------------
(* Properties of the normalizer, checked under SpecNorm *)

Normalized == nStage \in {"validated", "simulated"} /\ ~nOut.threw

NodeIdsOf(nodes) == {nodes[i].id.s : i \in 1..Len(nodes)}

\* C1: every link of the validated output has its source and its target in
\* the validated output's node set, and every link handed to the force
\* simulation has both endpoints in the simulated node set.
C1_NoDanglingLinks ==
  /\ Normalized =>
       \A i \in 1..Len(nOut.links) :
         /\ nOut.links[i].source \in NodeIdsOf(nOut.nodes)
         /\ nOut.links[i].target \in NodeIdsOf(nOut.nodes)
  /\ nStage = "simulated" =>
       \A i \in 1..Len(nSim.links) :
         /\ nSim.links[i].source \in NodeIdsOf(nSim.nodes)
         /\ nSim.links[i].target \in NodeIdsOf(nSim.nodes)

\* a graph that lost a node to validation and still keeps a link, which has
\* reached the simulation
C1_Witness ==
  /\ nStage = "simulated"
  /\ nSim.created
  /\ Len(nSim.links) > 0
  /\ Len(nOut.nodes) < Len(nIn.nodes)

\* a dangling link was offered and dropped
C1_WitnessDropped ==
  /\ Normalized
  /\ Len(nIn.links) > 0
  /\ Len(nOut.links) = 0
  /\ Len(nOut.nodes) > 0

\* C2: the validated node set never contains two nodes with the same
\* canonical identifier (the later of two nodes whose identifiers coerce to
\* the same string is rejected). Stated for graphs that validateNetworkData
\* accepted, which are the graphs a data update lets through to the
\* normalizer.
C2_UniqueCanonicalIds ==
  (Normalized /\ nCheck.isValid) =>
    \A i, j \in 1..Len(nOut.nodes) :
      i # j => nOut.nodes[i].id.s # nOut.nodes[j].id.s

\* C10: normalization never throws for a partially bad graph: it throws only
\* when the node collection itself is absent.
C10_ThrowsOnlyWithoutNodes ==
  (nStage \in {"validated", "simulated"} /\ nOut.threw) => ~nIn.hasNodes

-----------------------------------------------------------------------------
(* Properties of the view transform, checked under SpecView *)

\* C3: in every reachable state the view scale lies within the scale extent
\* the zoom behaviour was set up with, minZoom <= k <= maxZoom.
C3_ScaleWithinExtent ==
  RLe(vExtent.min, vT.k) /\ RLe(vT.k, vExtent.max)

Degenerate(layout) ==
  LET nodes == Positioned(layout)
  IN  \/ Len(nodes) = 0
      \/ LET b == BoundsOf(nodes)
         IN  b.maxX = b.minX \/ b.maxY = b.minY

\* C7: fit-to-view leaves the view transform as it was when the node set is
\* empty, holds no positioned node, or has a bounding box of zero width or
\* zero height.
C7_FitKeepsTransform ==
  (vLast.op = "fit" /\ Degenerate(vLayout)) => vT = vLast.before

-----------------------------------------------------------------------------
(* Properties of the solver, the scene and the drag, checked under SpecScene *)

\* C5: stopping the solver is final and idempotent: no tick callback runs on
\* a halted simulation, also when a frame was already requested, and a stop
\* of a halted simulation (the forces control, the teardown) changes nothing
\* of the simulation and raises no error.
C5_StopIsFinal ==
  /\ [](sLast.op = "tick" => ~sLast.halted)
  /\ [][(sSim.halted /\ sLast'.op \in {"toggleForces", "cleanup"} /\ ~sForces')
          => (sSim' = sSim /\ sError' = sError)]_vars

\* a frame requested before the stop has fired after it and has run no tick
C5_Witness ==
  /\ sLast.op = "frame"
  /\ sLast.halted
  /\ Len(sScene) > 0

\* the teardown has stopped a simulation that the forces control had stopped
C5_WitnessStoppedTwice ==
  /\ sLast.op = "cleanup"
  /\ sLast.halted
  /\ sSim.exists

\* C6: when a data update has been rendered, the keys of the node entries
\* are the node identifiers of the new validated graph.
C6_SceneKeysAreNewIds ==
  (sLast.op = "updateData" /\ sLast.rendered) =>
    SceneKeys(sScene) = NodeIdsOf(validNodes(sData.graph))

\* C8: after every tick a node pinned by a drag in progress is where the
\* pointer of the drag is.
C8_PinnedNodeStays ==
  (sLast.op = "tick" /\ sDrag.active /\ ~sDrag.orphan) =>
    /\ sNodes[sDrag.idx].x = sDrag.x
    /\ sNodes[sDrag.idx].y = sDrag.y

\* node "1", dragged to (50, 80), has stayed there through a tick that moved
\* node "2"
C8_Witness ==
  /\ sLast.op = "tick"
  /\ sDrag.active /\ ~sDrag.orphan
  /\ Len(sNodes) = 2
  /\ sNodes[sDrag.idx].id = "1"
  /\ <<sNodes[sDrag.idx].x, sNodes[sDrag.idx].y>> = <<50, 80>>
  /\ sDrag.idx \notin sLast.moved
  /\ \E i \in sLast.moved : sNodes[i].id = "2"

\* C9: when a drag ends the node is unpinned, unless shift is held at the
\* release: then it stays pinned where it was dropped.
C9_UnpinUnlessKeepFixed ==
  (sLast.op = "dragEnd" /\ ~sDrag.orphan) =>
    LET node == sNodes[sDrag.idx]
    IN  IF sLast.shift
          THEN node.pinned /\ node.fx = sDrag.x /\ node.fy = sDrag.y
        ELSE ~node.pinned

\* a graph whose only defect is a link to a node that is not there: both
\* collections present, every node identifier usable and distinct, every
\* link endpoint readable, and some endpoint that names no node
DanglingOnly(g) ==
  /\ g.hasNodes /\ g.hasLinks
  /\ Len(g.nodes) > 0
  /\ \A i \in 1..Len(g.nodes) : HasValidId(g.nodes[i])
  /\ \A i, j \in 1..Len(g.nodes) :
       i # j => toString(g.nodes[i].id) # toString(g.nodes[j].id)
  /\ \A i \in 1..Len(g.links) : ~LinkThrows(g.links[i])
  /\ \E i \in 1..Len(g.links) :
       \/ EndpointId(g.links[i].source)
            \notin {toString(g.nodes[n].id) : n \in 1..Len(g.nodes)}
       \/ EndpointId(g.links[i].target)
            \notin {toString(g.nodes[n].id) : n \in 1..Len(g.nodes)}

\* C11: a graph with a link to a node that is not there does not halt the
\* initialization or a data update: the render pass runs to its end and the
\* initialization leaves no error.
C11_DanglingLinkIsRendered ==
  (sLast.op \in {"init", "updateData"} /\ DanglingOnly(sData.graph)) =>
    /\ sLast.rendered
    /\ (sLast.op = "init" => ~sError)

\* C12: a data or configuration update whose render pass ran to its end
\* leaves no error: an error the component was in is cleared by the update,
\* not only by clearError.
C12_RenderedUpdateClearsError ==
  (sLast.op \in {"updateData", "updateConfig"} /\ sLast.rendered) => ~sError

\* C13: the tick that takes alpha below the convergence threshold is the
\* last one: the solver stops its timer, so that no further tick is issued
\* and no position changes until a reheat, a drag or a new simulation.
C13_ConvergedSolverStops ==
  (sLast.op = "tick" /\ sSim.alpha < AlphaMin) =>
    (~sSim.running /\ ~sSim.frame)

\* C14: after a teardown, however often and in whatever state it ran, the
\* solver is stopped and the scene holds no node entry and no link entry.
C14_TeardownLeavesNothing ==
  sPhase = "destroyed" =>
    (~sSim.running /\ sScene = <<>> /\ sLines = <<>>)

-----------------------------------------------------------------------------
(* Properties of the hover, checked under SpecHover *)

\* C15: hoveredNodeSignal records at most one node, and when the pointer
\* enters a node while another node is recorded as hovered, the leave event
\* of the hover that was recorded is emitted before the enter event of the
\* new node.
C15_HoverIsExclusive ==
  (hLast.to # NoNode /\ hLast.prev # NoNode /\ hLast.prev # hLast.to) =>
    /\ Len(hLast.emitted) = 2
    /\ hLast.emitted[1].data = NoNode
    /\ hLast.emitted[2].data = hLast.to

-----------------------------------------------------------------------------
(* Properties of sanitizeData, checked under SpecSanitize *)

\* C16: after normalization every node identifier and every link endpoint
\* is a string, whatever its type in the input (the node {id: 1} comes out
\* with the identifier "1", the link {source: 1, target: 2} as "1" -> "2").
C16_IdentifiersAreStrings ==
  zStage = "sanitized" =>
    /\ zOut.node.id.t = "string"
    /\ zOut.link.source.t = "string"
    /\ zOut.link.target.t = "string"


-----------------------------------------------------------------------------
(* Properties of the dropped link, checked under SpecNorm *)

\* the link {source: 1, target: 99}; no raw node has the identifier 99
Link1To99 == [source |-> Prim(Num(1)), target |-> Prim(Num(99))]

\* validateAndSanitizeData returned for a graph whose one link is 1 -> 99
\* and which has the node 1
DroppedLinkCase ==
  /\ Normalized
  /\ nIn.links = <<Link1To99>>
  /\ "1" \in NodeIdsOf(nOut.nodes)

\* the console.warn calls of the link filter and of the link count check
WarningsOnLinks(w) ==
  SelectIdx(w, {i \in 1..Len(w) : w[i] # "removed-nodes"}, 1)

\* C17 as stated: validating a graph with the link 1 -> 99 and no node 99
\* drops the link, emits exactly one warning for it, and hands no link to the
\* force simulation.
C17_ExactlyOneWarning ==
  DroppedLinkCase =>
    /\ nOut.links = <<>>
    /\ Len(WarningsOnLinks(nOut.warnings)) = 1
    /\ (nStage = "simulated" => nSim.links = <<>>)

\* C17, amended: the link is dropped and no link reaches the force
\* simulation, and the validation warns twice about it: once for the missing
\* target in the filter, once with the count of removed links.
C17_DroppedWithTwoWarnings ==
  DroppedLinkCase =>
    /\ nOut.links = <<>>
    /\ WarningsOnLinks(nOut.warnings) = <<"invalid-target", "removed-links">>
    /\ (nStage = "simulated" => nSim.links = <<>>)

\* the graph {nodes: [{id: 1}], links: [{source: 1, target: 99}]} has gone
\* through validation and the simulation was created without links
C17_Witness ==
  /\ DroppedLinkCase
  /\ nStage = "simulated"
  /\ nSim.created
  /\ Len(nIn.nodes) = 1


-----------------------------------------------------------------------------
(* Properties of fit-to-view, checked under SpecView *)

\* C18: for a bounding box of positive width and height, fit-to-view sets
\* the scale to min((viewport width - 2 * padding) / bounds width,
\* (viewport height - 2 * padding) / bounds height, maximum fit zoom), so the
\* scale is at most that maximum and the scaled box fits the padded
\* viewport, and it sets the translation so that the midpoint of the bounds
\* is drawn at the centre of the viewport.
C18_FitScaleAndCentre ==
  (vLast.op = "fit" /\ ~Degenerate(vLayout)) =>
    LET b  == BoundsOf(Positioned(vLayout))
        bw == b.maxX - b.minX
        bh == b.maxY - b.minY
        cx == R(b.minX + b.maxX, 2)
        cy == R(b.minY + b.maxY, 2)
    IN  /\ vT.k = RMin(RMin(R(vSize.w - 2 * FitPadding, bw),
                            R(vSize.h - 2 * FitPadding, bh)),
                       RInt(MaxFitZoom))
        /\ RLe(vT.k, RInt(MaxFitZoom))
        /\ RLe(RMul(vT.k, RInt(bw)), RInt(vSize.w - 2 * FitPadding))
        /\ RLe(RMul(vT.k, RInt(bh)), RInt(vSize.h - 2 * FitPadding))
        /\ RAdd(vT.x, RMul(vT.k, cx)) = R(vSize.w, 2)
        /\ RAdd(vT.y, RMul(vT.k, cy)) = R(vSize.h, 2)


\* C19: after sanitization every node size present in the output is a number
\* in [1, 100], every link width present is a number in [1, 20], and no
\* malformed color of the input ("rgb(oops", "notacolor") is in the output.
C19_StyleWithinBounds ==
  zStage = "sanitized" =>
    /\ zOut.node.size.t # "absent" =>
         (zOut.node.size.t = "number"
            /\ 1 <= zOut.node.size.n /\ zOut.node.size.n <= 100)
    /\ zOut.link.width.t # "absent" =>
         (zOut.link.width.t = "number"
            /\ 1 <= zOut.link.width.n /\ zOut.link.width.n <= 20)
    /\ zOut.node.color.t # "absent" => zOut.node.color.s \in {"#ff6b6b", "red"}
    /\ zOut.link.color.t # "absent" => zOut.link.color.s \in {"#ff6b6b", "red"}


-----------------------------------------------------------------------------
(* Properties of the reheat, checked under SpecScene *)

\* C20: in a component that has set up its svg (without it no tick reaches
\* the end test and the simulation never converges), a reheat of a
\* simulation that has run down, by switching the forces back on or by a
\* resize, leaves the simulation running with a frame requested and alpha at
\* 0.3, above alphaMin, so that the next frame is a tick; the reheat itself
\* changes no node's position and no pin.
C20_ReheatResumesTicks ==
  [][(/\ sSvg
      /\ RanDown(sSim)
      /\ \/ sLast'.op = "resize"
         \/ (sLast'.op = "toggleForces" /\ sForces'))
       => /\ sSim'.running /\ sSim'.frame
          /\ sSim'.alpha = AlphaReheat /\ sSim'.alpha >= AlphaMin
          /\ sNodes' = sNodes]_vars

\* a resize has reheated a simulation of two nodes that had run down
C20_Witness ==
  /\ sSvg
  /\ sLast.op = "resize"
  /\ sLast.ranDown
  /\ sSim.running
  /\ Len(sNodes) = 2

\* the forces were switched back on over a simulation that had run down
C20_WitnessToggle ==
  /\ sSvg
  /\ sLast.op = "toggleForces"
  /\ sForces
  /\ sLast.ranDown
  /\ sSim.running


-----------------------------------------------------------------------------
(* Properties of the reconcile and the tick, checked under SpecScene *)

\* the join of renderNodes and renderLinks for the data of the simulation has
\* run to its end: one node entry per simulated node, bound to it, and one
\* line per simulated link
Joined ==
  /\ Len(sScene) = Len(sNodes)
  /\ \A i \in 1..Len(sNodes) : \E e \in 1..Len(sScene) : sScene[e].d = i
  /\ \A e \in 1..Len(sScene) : sScene[e].key = sNodes[sScene[e].d].id
  /\ Len(sLines) = Len(sLinks)

\* C21: the join for new data has completed before a tick of the simulation
\* created for that data updates positions: no tick of a simulation runs
\* against a scene whose join for the simulated data has not completed.
C21_JoinBeforeTick ==
  sLast.op = "tick" => Joined


\* C22: a tick changes nothing of the scene but positions: the node entries
\* and the lines are the same ones, in the same order, bound to the same
\* data, before and after every tick; only the transform of a node entry and
\* the endpoints of a line may differ.
C22_TickKeepsEntries ==
  [][sLast'.op = "tick" =>
       /\ Len(sScene') = Len(sScene)
       /\ \A e \in 1..Len(sScene) :
            [sScene'[e] EXCEPT !.tx = 0, !.ty = 0]
              = [sScene[e] EXCEPT !.tx = 0, !.ty = 0]
       /\ Len(sLines') = Len(sLines)
       /\ \A i \in 1..Len(sLines) :
            /\ sLines'[i].source = sLines[i].source
            /\ sLines'[i].target = sLines[i].target]_vars

\* a tick has moved a node of a scene of two entries and a line, and the
\* entry of that node has followed it
C22_Witness ==
  /\ sLast.op = "tick"
  /\ Len(sScene) = 2
  /\ Len(sLines) = 1
  /\ \E e \in 1..Len(sScene) :
       /\ sScene[e].d \in sLast.moved
       /\ sScene[e].tx = sNodes[sScene[e].d].x
       /\ sScene[e].tx # 0


\* C25: whenever the forces flag shown to the user is off, the simulation is
\* not ticking: no operation performed while the forces are off (a data
\* update, a configuration update, a resize, a drag) leaves the timer of the
\* simulation running.
C25_ForcesOffMeansNoTicks ==
  ~sForces => ~sSim.running


\* the data update that made this step was rejected by validateNetworkData
RejectedUpdate ==
  /\ sLast'.op = "updateData"
  /\ ~sData'.placed
  /\ ~validateNetworkData(sData'.graph).isValid

\* C26: a data update that fails validation leaves the rendered graph, the
\* simulation and its nodes, the stored data and the displayed counts as
\* they were; only the error state changes.
C26_RejectedUpdateKeepsAll ==
  [][RejectedUpdate =>
       /\ sScene' = sScene /\ sLines' = sLines
       /\ sSim' = sSim /\ sNodes' = sNodes /\ sLinks' = sLinks
       /\ sCounts' = sCounts
       /\ sData' = sData]_vars


\* C28: a render pass that throws ends in handleError, and it does not leave
\* a scene that is animated as if the pass had succeeded: a pass that did
\* not run to its end shows the error, and it leaves the simulation as it
\* was or not ticking.
C28_FailedPassIsNotAnimated ==
  [][(sLast'.op \in {"init", "updateData", "updateConfig"}
        /\ ~sLast'.rendered)
       => /\ sError'
          /\ (sSim' = sSim \/ ~sSim'.running)]_vars


\* C30: after the initialization has completed and after every data update
\* that was rendered, the displayed node count and link count are the
\* numbers of nodes and links of the current graph, the data input.
C30_CountsMatchGraph ==
  (sLast.op \in {"init", "updateData"} /\ sLast.rendered) =>
    /\ sCounts.nodes = Len(sData.graph.nodes)
    /\ sCounts.links = Len(sData.graph.links)


-----------------------------------------------------------------------------
(* Properties of the node fields, checked under SpecReposition *)

\* the step hands new node objects to the simulation: a new data input, or
\* the first render of a data input that was stored without being rendered
NewNodeObjects ==
  sLast'.op \in {"init", "updateData"} \/ ~sData.placed

\* C29: x, y, fx and fy of a node are written by the tick of the solver and
\* by the drag handlers only: every other step of the component, a reconcile
\* and a position update included, leaves the fields of the simulated nodes
\* as they were.
C29_OnlySolverAndDragWrite ==
  [][(sLast'.op \notin {"tick", "dragStart", "drag", "dragEnd"}
        /\ ~NewNodeObjects)
       => sNodes' = sNodes]_vars


-----------------------------------------------------------------------------
(* Properties of the deferred fit, checked under SpecDeferred *)

\* C27: once the component is destroyed no callback scheduled before, the
\* delayed initial fit-to-view in particular, changes the view transform.
C27_NothingRunsAfterDestroy ==
  [][tDestroyed => vT' = vT]_vars


-----------------------------------------------------------------------------
(* Properties of the renderer service and the state-service component,     *)
(* checked under SpecService                                               *)

\* C23: after every tick each rendered node is at the solver's position of
\* its node and each rendered link ends at the solver's positions of its
\* source and target nodes.
C23_SceneShowsSolverPositions ==
  rLast = "tick" =>
    /\ \A e \in 1..Len(rScene) :
         /\ rScene[e].tx = rNodes[rScene[e].d].x
         /\ rScene[e].ty = rNodes[rScene[e].d].y
    /\ \A i \in 1..Len(rLines) :
         /\ rLines[i].x1 = rNodes[NodeWithId(rNodes, rLinks[i].source)].x
         /\ rLines[i].y1 = rNodes[NodeWithId(rNodes, rLinks[i].source)].y
         /\ rLines[i].x2 = rNodes[NodeWithId(rNodes, rLinks[i].target)].x
         /\ rLines[i].y2 = rNodes[NodeWithId(rNodes, rLinks[i].target)].y

\* C24: a node entry whose key is present before and after a reconcile is
\* the same entry afterwards: it is updated, not removed and created again.
C24_KeptKeyKeepsEntry ==
  [][rLast' = "render" =>
       \A e \in 1..Len(rScene) : \A f \in 1..Len(rScene') :
         rScene'[f].key = rScene[e].key => rScene'[f].born = rScene[e].born]_vars


-----------------------------------------------------------------------------
(* Properties of the recorded hover over data updates, checked under       *)
(* SpecHover                                                               *)

\* C31: while the component is live the node recorded as hovered is none or
\* a node that has an entry in the rendered scene; a data update that
\* removes the hovered node clears the hover.
C31_HoveredIsRendered ==
  sPhase = "live" => (hHovered = NoNode \/ hHovered \in SceneKeys(sScene))


-----------------------------------------------------------------------------
(* Properties of the auto-clear timeouts, checked under SpecError *)

\* C35: a timeout that fires clears the current error only if it is the
\* error that scheduled the timeout: another error that has become current
\* stays current, and an error that is not recoverable is never cleared by
\* a timeout.
C35_TimerClearsOnlyItsError ==
  [][eLast'.op = "timeout" =>
       /\ (eCurrent # eLast'.error => eCurrent' = eCurrent)
       /\ ((eCurrent # NoError /\ ~isRecoverableError(eMade[eCurrent]))
             => eCurrent' = eCurrent)]_vars

\* a timeout has fired while a newer error that is not recoverable was
\* current, and that error is still current
C35_Witness ==
  /\ eLast.op = "timeout"
  /\ eLast.before # NoError
  /\ eLast.before # eLast.error
  /\ ~isRecoverableError(eMade[eLast.before])
  /\ eCurrent = eLast.before


-----------------------------------------------------------------------------
(* Properties of the cache, checked under SpecCache *)

\* C36: every set(key, data) returns, and when it has returned the cache
\* holds the key and at most maxSize entries.
C36_SetReturnsWithinMaxSize ==
  kLast.op = "set" =>
    /\ ~kHung
    /\ kLast.key \in CacheKeysOf(kCache)
    /\ Len(kCache) <= kMaxSize


-----------------------------------------------------------------------------
(* Properties of installPlugin, checked under SpecPlugin *)

\* C37: when two calls of installPlugin for the same plugin id have
\* returned and no install routine has failed, exactly one of them reports
\* success and the install routine of the plugin has run exactly once,
\* also when the second call began before the first had returned.
C37_InstalledOnce ==
  \A c, d \in 1..Len(pCalls) :
    (/\ c < d
     /\ pCalls[c].id = pCalls[d].id
     /\ \A e \in 1..Len(pCalls) : pCalls[e].pc = "returned" /\ ~pCalls[e].rejected)
    => /\ Cardinality({e \in 1..Len(pCalls) :
                         pCalls[e].id = pCalls[c].id /\ pCalls[e].success}) <= 1
       /\ pRuns[pCalls[c].id] <= 1


-----------------------------------------------------------------------------
(* Properties of the normalizer applied twice, checked under SpecRenorm *)

\* C38: normalizing a graph that validateAndSanitizeData returned gives the
\* same node identifiers and the same links, drops nothing and emits no
\* warning.
C38_NormalizationIsIdempotent ==
  [][nStage' = "renormalized" =>
       /\ ~nOut'.threw
       /\ nOut'.nodes = nOut.nodes
       /\ nOut'.links = nOut.links
       /\ nOut'.warnings = <<>>]_vars

\* a graph with two nodes and a link has been normalized a second time
C38_Witness ==
  /\ nStage = "renormalized"
  /\ Len(nOut.nodes) = 2
  /\ Len(nOut.links) = 1


-----------------------------------------------------------------------------
(* Properties of the drag gesture, checked under SpecScene *)

\* C34: drag-start pins the node at the position it has, without moving it,
\* and reheats the solver, so that the timer runs although the solver had
\* run down; while the alpha target of the drag stands no tick ends the
\* solver; after drag-end the alpha target is zero again.
C34_DragReheatsAndSettles ==
  [][/\ sLast'.op = "dragStart" =>
          /\ sDrag'.active
          /\ sNodes'[sDrag'.idx].pinned
          /\ sNodes'[sDrag'.idx].fx = sNodes[sDrag'.idx].x
          /\ sNodes'[sDrag'.idx].fy = sNodes[sDrag'.idx].y
          /\ sNodes'[sDrag'.idx].x = sNodes[sDrag'.idx].x
          /\ sNodes'[sDrag'.idx].y = sNodes[sDrag'.idx].y
          /\ sSim'.running /\ sSim'.frame
          /\ sSim'.alphaTarget = AlphaReheat
     /\ (sLast'.op = "tick" /\ sDrag.active /\ sSim.alphaTarget = AlphaReheat)
          => (sSim'.running /\ sSim'.frame)
     /\ sLast'.op = "dragEnd" => sSim'.alphaTarget = 0]_vars

\* a drag has started on a node of a solver that had run down
C34_Witness ==
  /\ sLast.op = "dragStart"
  /\ sLast.ranDown
  /\ sSim.running
  /\ sNodes[sDrag.idx].fx = sNodes[sDrag.idx].x

\* a tick has run during a drag that began on a solver that had run down
C34_WitnessTick ==
  /\ sLast.op = "tick"
  /\ sDrag.active
  /\ sSim.alphaTarget = AlphaReheat
  /\ sSim.alpha = AlphaReheat


-----------------------------------------------------------------------------
(* Properties of the tick listeners and of the resize, checked under       *)
(* SpecService                                                             *)

\* C32: whatever the number of render passes before, a tick of the solver
\* triggers exactly one position update of the scene.
C32_OneUpdatePerTick ==
  rLast = "tick" => rUpdates = 1

\* C33: a resize keeps the rendered graph: the node and link entries after
\* it are those before it, and the solver goes on with the same nodes at
\* their positions.
C33_ResizeKeepsGraph ==
  [][rLast' = "resize" =>
       /\ rScene' = rScene
       /\ rLines' = rLines
       /\ rSim' = rSim
       /\ rNodes' = rNodes]_vars

====
